---- MODULE Spec2Model ----
(***************************************************************************)
(* Session / token lifecycle and authorization gate of codeniversity-api.  *)
(*                                                                         *)
(* The state is the primary store (User collection), the key-value store   *)
(* (redis), the clock, the token pairs signed so far, and the requests in  *)
(* flight.  A request walks the middleware chain its route registers.  One *)
(* action is one run-to-completion segment of a handler on the Node event  *)
(* loop: from an event (request arrival, reply of an awaited call) to the  *)
(* next await or to the response.  A store command takes effect when it is *)
(* issued (the redis client pipelines its commands in issue order on one   *)
(* connection); the continuation after the await is a later action.        *)
(***************************************************************************)
EXTENDS Integers, Sequences, FiniteSets, TLC

\* ----------------------------------------------------------------- bounds
NumUsers == 2           \* identity records in the primary store
NumCourses == 2         \* course records the primary store has room for
NumSlots == 2           \* requests in flight at the same time
MaxTime == 2            \* clock ticks
MaxArrivals == 3        \* requests served in one behaviour

\* ------------------------------------------------- lifetimes, in clock ticks
\* (only their order is kept: access < refresh = session TTL)
AccessLife == 1         \* expiresIn: '5m'
RefreshLife == 2        \* expiresIn: '3d'
SessionTTL == 2         \* 'EX', 259200

VARIABLES
  users,      \* primary store: ObjectId -> document, or Null once deleted
  courses,    \* primary store, Course collection: ObjectId -> document, or Null
  redis,      \* key-value store: key -> [val, exp], or Null when absent
  now,        \* clock
  minted,     \* <<id, iat>> of every access/refresh pair signed so far
  hist,       \* history: what the claims about revocation and minting refer to
  req,        \* request slots
  rq,         \* the slots awaiting a redis reply, in the order of their commands
  arrivals,   \* requests that have arrived
  az,         \* the roles of authorizedRoles(...roles) used on its own
  NODE_ENV,   \* process.env.NODE_ENV
  accessTokenOptions    \* the module-level cookie options object sendToken changes

vars == <<users, courses, redis, now, minted, hist, req, rq, arrivals, az, NODE_ENV,
          accessTokenOptions>>

\* ------------------------------------------------------------ JS values
Null == [null |-> TRUE]             \* null (also: key absent in redis)
Undef == [undefined |-> TRUE]       \* undefined (req.user before the gate)
NoExp == 0 - 1                      \* entry written without a TTL

\* the ObjectIds of the identity records, and those of the course records
UserIds == 1..NumUsers
CourseIds == (NumUsers + 1)..(NumUsers + NumCourses)
Slots == 1..NumSlots

\* ObjectId.toString(): the id as it appears in JSON, in a token payload and
\* as a redis key
Hex(i) == IF i \in UserIds THEN "u" \o ToString(i) ELSE "c" \o ToString(i - NumUsers)
HexIds == {Hex(i) : i \in UserIds}
CourseHexIds == {Hex(i) : i \in CourseIds}
\* mongoose casts the string back to an ObjectId for _id queries
FromHex(s) == CHOOSE i \in UserIds : Hex(i) = s
\* a request parameter that is not the text of an ObjectId
BadId == "zz"

\* an id read through optional chaining (req.user?._id): undefined when there
\* is no object to read it from
NoId == "<undefined>"
IdOf(user) == IF user = Null \/ user = Undef THEN NoId ELSE user._id
\* ioredis turns a command argument into a string; null/undefined become ''
ToArg(x) == IF x = NoId THEN "" ELSE x
\* the keys of the one key-value store: the session of an identity under its
\* id, a cached course under its id, the cached course list under one name
AllCourses == "allCourses"
Keys == HexIds \cup {""} \cup CourseHexIds \cup {AllCourses}

\* JSON.stringify of a document (ObjectId -> hex string, the loaded fields
\* kept) or of null; the string is represented by the value it parses to
JSONstringify(doc) ==
  [json |-> IF doc = Null THEN Null
            ELSE [f \in DOMAIN doc |->
                    IF f = "_id" THEN Hex(doc._id)
                    ELSE IF f = "courses" THEN {Hex(c) : c \in doc.courses}
                    ELSE doc[f]]]
\* JSON.stringify of an object that JSON.parse returned: nothing to convert
JSONstringifyParsed(obj) == [json |-> obj]
JSONparse(s) == s.json

Email(i) == "e" \o ToString(i)
EmailFree == "e0"
Password == "pw"

\* ------------------------------------------------------------- tokens
\* jwt.sign({ id }, secret, { expiresIn }): the payload and the secret that
\* signed it; two tokens signed in the same tick for the same id are equal
JwtSign(id, secret, life) == [secret |-> secret, id |-> id, exp |-> now + life]
\* IUser.signAccessToken / signRefreshToken
SignAccessToken(user) == JwtSign(Hex(user._id), "ACCESS_TOKEN", AccessLife)
SignRefreshToken(user) == JwtSign(Hex(user._id), "REFRESH_TOKEN", RefreshLife)

\* a token signed by somebody else
Forged == [secret |-> "attacker", id |-> Hex(1), exp |-> MaxTime + 1]
\* the tokens a client can hold: the pairs signed so far
AccessOf(m) == [secret |-> "ACCESS_TOKEN", id |-> m[1], exp |-> m[2] + AccessLife]
RefreshOf(m) == [secret |-> "REFRESH_TOKEN", id |-> m[1], exp |-> m[2] + RefreshLife]
Held == {AccessOf(m) : m \in minted} \cup {RefreshOf(m) : m \in minted}

\* an error object: name, message, statusCode (0: not set), code (0: not set)
Err(name, message, statusCode) ==
  [name |-> name, message |-> message, statusCode |-> statusCode, code |-> 0]
\* new ErrorHandler(message, statusCode)
ErrorHandler(message, statusCode) == Err("Error", message, statusCode)
NoErr == Err("", "", 0)
\* what the primary store throws: a string that cannot be cast to an ObjectId,
\* a write the unique index rejects, a save whose document is gone, a query
\* on a connection that is gone
CastError == Err("CastError", "Cast to ObjectId failed", 0)
DuplicateKey == [Err("MongoServerError", "E11000 duplicate key error", 0)
                   EXCEPT !.code = 11000]
DocumentNotFound == Err("DocumentNotFoundError", "No document found", 0)
NetworkError == Err("MongoNetworkError", "connection closed", 0)
\* what sendMail rejects with when the mail cannot be sent
MailError == Err("MailError", "mail not sent", 0)

\* jwt.verify(token, secret): the payload, or the error it throws.  The
\* signature is checked first, the expiry after it.
JwtVerify(token, secret) ==
  IF token = Null \/ token = Undef
    THEN [err |-> Err("JsonWebTokenError", "jwt must be provided", 0), payload |-> Null]
  ELSE IF token.secret # secret
    THEN [err |-> Err("JsonWebTokenError", "invalid signature", 0), payload |-> Null]
  ELSE IF now >= token.exp
    THEN [err |-> Err("TokenExpiredError", "jwt expired", 0), payload |-> Null]
  ELSE [err |-> NoErr, payload |-> [id |-> token.id]]

\* ------------------------------------------------------------ responses
\* success: the `success` key of the body ("" when the body has none)
\* access_options, refresh_options: the options the two cookies are set with
NoRes == [status |-> 0, success |-> "", message |-> "",
          access_token |-> Null, refresh_token |-> Null,
          access_options |-> Null, refresh_options |-> Null, body |-> Null]
\* the cookie options as the module defines them (secure: not set)
AccessTokenOptions == [httpOnly |-> TRUE, sameSite |-> "lax", secure |-> FALSE]
RefreshTokenOptions == [httpOnly |-> TRUE, sameSite |-> "lax", secure |-> FALSE]
Cleared == [cleared |-> TRUE]       \* res.cookie(name, '', { maxAge: 1 })

\* (variant: the error middleware without its TokenExpiredError branch)
ErrorMiddleware_NoExpiredBranch(err) ==
  LET e0 == [err EXCEPT !.statusCode = IF @ = 0 THEN 500 ELSE @,
                        !.message = IF @ = "" THEN "Internal server error" ELSE @]
      e3 == IF e0.name = "JsonWebTokenError"
              THEN ErrorHandler("Invalid token. Please provide a valid token", 401)
              ELSE e0
  IN [status |-> e3.statusCode, success |-> "false", message |-> e3.message]

\* the error middleware: the response it sends for err
ErrorMiddleware(err) ==
  LET e0 == [err EXCEPT !.statusCode = IF @ = 0 THEN 500 ELSE @,
                        !.message = IF @ = "" THEN "Internal server error" ELSE @]
      e1 == IF e0.name = "CastError"
              THEN ErrorHandler("Resource not found. Invalid ID", 404) ELSE e0
      e2 == IF e1.code = 11000
              THEN ErrorHandler("Duplicate key entered", 409) ELSE e1
      e3 == IF e2.name = "JsonWebTokenError"
              THEN ErrorHandler("Invalid token. Please provide a valid token", 401)
              ELSE e2
      e4 == IF e3.name = "TokenExpiredError"
              THEN ErrorHandler("Expired token. Please log in again", 401) ELSE e3
  IN [status |-> e4.statusCode, success |-> "false", message |-> e4.message]

\* ------------------------------------------------------------- store access
\* redis.get(key): the value, or null when the key is absent (an entry whose
\* TTL has run out is removed by Tick)
RedisGet(key) == IF redis[key] = Null THEN Null ELSE redis[key].val
\* redis.set(key, value) / redis.set(key, value, 'EX', ttl) / redis.del(key)
RedisSet(store, key, value) ==
  [store EXCEPT ![ToArg(key)] = [val |-> value, exp |-> NoExp]]
RedisSetEx(store, key, value, ttl) ==
  [store EXCEPT ![ToArg(key)] = [val |-> value, exp |-> now + ttl]]
RedisDel(store, key) == [store EXCEPT ![ToArg(key)] = Null]

\* a document as a query loads it: the password is not selected by default
Unselect(doc) == [f \in DOMAIN doc \ {"password"} |-> doc[f]]
\* User.findById(id); findById(undefined) finds nothing
FindById(id) ==
  IF id = NoId \/ users[FromHex(id)] = Null THEN Null
  ELSE Unselect(users[FromHex(id)])
\* User.findOne({ email })
ByEmail(email) == {i \in UserIds : users[i] # Null /\ users[i].email = email}
FindOne(email) ==
  IF ByEmail(email) = {} THEN Null
  ELSE Unselect(users[CHOOSE i \in ByEmail(email) : TRUE])
\* User.findOne({ email }).select('+password')
FindOneWithPassword(email) ==
  IF ByEmail(email) = {} THEN Null ELSE users[CHOOSE i \in ByEmail(email) : TRUE]

\* Course.findById(id), for an id that can be cast to an ObjectId
CourseFromHex(s) == CHOOSE c \in CourseIds : Hex(c) = s
CourseFindById(id) ==
  IF id \notin CourseHexIds THEN Null ELSE courses[CourseFromHex(id)]

\* --------------------------------------------------------------- routes
Mw(name) == [mw |-> name, roles |-> <<>>]
\* authorizedRoles(...roles)
Authz(roles) == [mw |-> "authorizedRoles", roles |-> roles]
Gate == Mw("isAuthenticated")
AdminOnly == Authz(<<"admin">>)
Route(path, chain) == [path |-> path, chain |-> chain]

\* (variant: GET /users registered with the role check in front of the gate)
UserRoutes_RoleCheckFirst == {
  Route("GET /users", <<AdminOnly, Gate, Mw("index")>>),
  Route("POST /login", <<Mw("loginUser")>>),
  Route("GET /logout", <<Gate, Mw("logoutUser")>>),
  Route("GET /refresh-token", <<Mw("updateAccessToken")>>) }

UserRoutes == {
  Route("GET /users", <<Gate, AdminOnly, Mw("index")>>),
  Route("POST /register", <<Mw("registerUser")>>),
  Route("POST /activate-user", <<Mw("activateUser")>>),
  Route("POST /login", <<Mw("loginUser")>>),
  Route("GET /logout", <<Gate, Mw("logoutUser")>>),
  Route("GET /refresh-token", <<Mw("updateAccessToken")>>),
  Route("GET /me", <<Gate, Mw("getUserInfo")>>),
  Route("POST /social-auth", <<Mw("socialAuth")>>),
  Route("PUT /update-user-info", <<Gate, Mw("updateUserInfo")>>),
  Route("PUT /update-password", <<Gate, Mw("updatePassword")>>),
  Route("PUT /update-user-avatar", <<Gate, Mw("updateProfilePicture")>>),
  Route("PUT /update-user-role", <<Gate, AdminOnly, Mw("updateUserRole")>>),
  Route("DELETE /users/:id", <<Gate, AdminOnly, Mw("deleteUser")>>) }

CourseRoutes == {
  Route("POST /courses", <<Gate, AdminOnly, Mw("course.create")>>),
  Route("GET /courses", <<Mw("course.index")>>),
  Route("GET /courses/all", <<Gate, AdminOnly, Mw("fetchAllCourses")>>),
  Route("PUT /courses/:id", <<Gate, AdminOnly, Mw("course.update")>>),
  Route("DELETE /courses/:id", <<Gate, AdminOnly, Mw("course.destroy")>>),
  Route("GET /courses/:id", <<Mw("course.show")>>),
  Route("GET /courses/:id/content", <<Gate, Mw("getCourseBoughtByUser")>>),
  Route("POST /courses/:id/questions", <<Gate, Mw("addQuestion")>>),
  Route("POST /courses/:courseId/questions/:questionId/answers",
        <<Gate, Mw("addAnswer")>>),
  Route("POST /courses/:id/reviews", <<Gate, Mw("addReview")>>),
  Route("POST /courses/:courseId/reviews/:reviewId/replies",
        <<Gate, AdminOnly, Mw("addRepliesToReview")>>) }

OrderRoutes == {
  Route("POST /orders", <<Gate, Mw("order.create")>>),
  Route("GET /orders", <<Gate, AdminOnly, Mw("order.index")>>) }

NotificationRoutes == {
  Route("GET /notifications", <<Gate, AdminOnly, Mw("getNotifications")>>),
  Route("PUT /notifications/:id/mark-as-read", <<Gate, AdminOnly, Mw("markAsRead")>>) }

AnalyticsRoutes == {
  Route("GET /analytics/users", <<Gate, AdminOnly, Mw("getUserAnalytics")>>),
  Route("GET /analytics/orders", <<Gate, AdminOnly, Mw("getOrderAnalytics")>>),
  Route("GET /analytics/courses", <<Gate, AdminOnly, Mw("getCourseAnalytics")>>) }

LayoutRoutes == {
  Route("POST /layout", <<Gate, AdminOnly, Mw("createLayout")>>),
  Route("GET /layout", <<Mw("getLayoutByType")>>) }

RouteTable ==
  UserRoutes \cup CourseRoutes \cup OrderRoutes \cup NotificationRoutes
    \cup AnalyticsRoutes \cup LayoutRoutes

\* the handlers that read req.user
ReadsUser == {"logoutUser", "getUserInfo", "updateUserInfo", "updatePassword",
              "updateProfilePicture", "getCourseBoughtByUser", "addQuestion",
              "addAnswer", "addReview", "addRepliesToReview", "order.create"}

\* authorizedRoles(...az) on its own, in front of a handler
Standalone == "standalone"
Chain(path) ==
  IF path = Standalone THEN <<Authz(az), Mw("handler")>>
  ELSE (CHOOSE rt \in RouteTable : rt.path = path).chain

\* the routes of the session and token lifecycle
Core == {"GET /users", "POST /login", "GET /logout", "GET /refresh-token"}
\* the routes that change an account
Profile == {"PUT /update-user-info"}
Admin == {"PUT /update-user-role", "DELETE /users/:id"}

\* ------------------------------------------------------------- requests
NoBody == [email |-> "", password |-> "", name |-> "", id |-> "", role |-> ""]
\* t0: the time of arrival; at: what the session lookup met (history);
\* raised: the name of the error a store call of the request threw (history)
NoReq == [route |-> "", idx |-> 0, pc |-> "idle", t0 |-> 0,
          access_token |-> Null, refresh_token |-> Null, body |-> NoBody,
          user |-> Undef, loc |-> Null, res |-> NoRes, steps |-> <<>>, at |-> Null,
          raised |-> ""]

\* the cookies a client may send where a token signed with `secret` is read
Presentable(secret) == {Null, Forged} \cup {t \in Held : t.secret = secret}

Bodies(path) ==
  IF path = "POST /login" THEN
    {[NoBody EXCEPT !.email = Email(i), !.password = Password] : i \in UserIds}
    \cup {[NoBody EXCEPT !.email = Email(1), !.password = "bad"],
          [NoBody EXCEPT !.email = EmailFree, !.password = Password],
          [NoBody EXCEPT !.email = Email(1)]}
  ELSE IF path = "PUT /update-user-info" THEN
    {[NoBody EXCEPT !.name = "n1"], [NoBody EXCEPT !.email = EmailFree],
     [NoBody EXCEPT !.email = Email(1)]}
  ELSE IF path = "PUT /update-user-role" THEN
    {[NoBody EXCEPT !.id = i, !.role = ro] : i \in HexIds, ro \in {"user", "admin"}}
  ELSE IF path = "POST /register" THEN
    {[NoBody EXCEPT !.name = "n1", !.email = e, !.password = Password] :
       e \in {EmailFree, Email(1)}}
  ELSE IF path \in {"POST /orders", "GET /courses/:id/content", "DELETE /courses/:id"} THEN
    {[NoBody EXCEPT !.id = c] : c \in CourseHexIds}
  ELSE IF path = "POST /courses" THEN
    \* (a new course gets a new ObjectId: no request to create one is taken
    \* once the ids are used up)
    IF \E c \in CourseIds : courses[c] = Null
         /\ \A r \in Slots : req[r].route = "POST /courses" => req[r].pc \in {"idle", "done"}
      THEN {[NoBody EXCEPT !.name = "k1"]} ELSE {}
  ELSE IF path = "PUT /courses/:id" THEN
    {[NoBody EXCEPT !.id = c, !.name = "k1"] : c \in CourseHexIds}
  ELSE IF path = "GET /courses/:id" THEN
    {[NoBody EXCEPT !.id = k] : k \in CourseHexIds \cup HexIds}
  ELSE IF path = "DELETE /users/:id" THEN
    {[NoBody EXCEPT !.id = i] : i \in HexIds \cup {BadId}}
  ELSE {NoBody}

\* the event loop runs one segment at a time: a request that is between two
\* middlewares of its chain runs on before any other event is handled
Idle == \A r \in Slots : req[r].pc # "dispatch"
At(r, name) ==
  /\ req[r].pc = "dispatch"
  /\ Chain(req[r].route)[req[r].idx].mw = name
\* the reply of the redis command slot r awaits has come: replies come in the
\* order of the commands
Replied(r, pc) ==
  /\ Idle
  /\ req[r].pc = pc
  /\ rq # <<>> /\ Head(rq) = r
\* the reply of a primary-store call has come
Resumed(r, pc) == Idle /\ req[r].pc = pc

Step(q, what) == [q EXCEPT !.steps = Append(@, what)]
\* a store call of the request threw err
Raised(q, err) == [q EXCEPT !.raised = err.name]
\* next(): on to the next middleware of the chain
CallNext(q) == [q EXCEPT !.idx = @ + 1, !.pc = "dispatch", !.loc = Null]
\* next(err): the error middleware answers
NextErr(q, err) ==
  LET m == ErrorMiddleware(err)
  IN [q EXCEPT !.res = [@ EXCEPT !.status = m.status, !.success = m.success,
                                 !.message = m.message],
               !.pc = "done", !.loc = Null]
\* await: the segment ends, the continuation is at pc
Await(q, pc, loc) == [q EXCEPT !.pc = pc, !.loc = loc]
\* res.status(status).json(body)
Json(q, status, success, message, body) ==
  [q EXCEPT !.res = [@ EXCEPT !.status = status, !.success = success,
                              !.message = message, !.body = body],
            !.pc = "done", !.loc = Null]

\* ------------------------------------------------------------- history
\* revoked: the ids whose session entry was deleted and that have not logged
\* in since; fresh: the pair sendToken has just minted (id, access token, the
\* session it stored), until the stores or the clock change again; redeemed:
\* the refresh tokens a refresh has succeeded with
\* purchases: how many create-order requests have saved their purchase of
\* each course; ordered: the <<identity id, course id>> of the create-order
\* requests that have been answered with success
NoHist == [revoked |-> {}, fresh |-> Null, redeemed |-> {},
          purchases |-> [c \in CourseIds |-> 0], ordered |-> {}]
Changed(h) == [h EXCEPT !.fresh = Null]
Deleted(h, key) ==
  [h EXCEPT !.revoked = @ \cup ({key} \cap HexIds), !.fresh = Null]
\* what the stores hold for id when a request presents token (recorded with
\* the request, whether or not the code goes on to look the session up)
Lookup(id, token) ==
  [absent |-> RedisGet(id) = Null,
   revoked |-> id \in hist.revoked,
   fresh |-> IF hist.fresh # Null /\ hist.fresh.token = token
               THEN hist.fresh.session ELSE Null,
   redeemed |-> token \in hist.redeemed,
   failed |-> FALSE,
   ordered |-> {c \in CourseHexIds : <<id, c>> \in hist.ordered}]

\* the accounts that exist at start; those of L have logged in; the process
\* has just started with NODE_ENV = env
Boot(env) ==
  /\ users = [i \in UserIds |->
                [_id |-> i, role |-> IF i = 1 THEN "admin" ELSE "user",
                 name |-> "n0", email |-> Email(i), password |-> Password,
                 courses |-> {}]]
  /\ courses = [c \in CourseIds |->
                  IF c = NumUsers + 1 THEN [_id |-> c, name |-> "k0", purchased |-> 0]
                  ELSE Null]
  /\ \E L \in SUBSET UserIds :
       /\ redis = [k \in Keys |->
                    IF \E i \in L : Hex(i) = k
                      THEN [val |-> JSONstringify(users[FromHex(k)]), exp |-> NoExp]
                      ELSE Null]
       /\ minted = {<<Hex(i), 0>> : i \in L}
  /\ now = 0
  /\ hist = NoHist
  /\ req = [r \in Slots |-> NoReq]
  /\ rq = <<>>
  /\ arrivals = 0
  /\ az = <<>>
  /\ NODE_ENV = env
  /\ accessTokenOptions = AccessTokenOptions

Envs == {"development", "production"}
Init == Boot("development")

\* a request arrives on one of the routes of S.  (Slots are interchangeable:
\* it takes the first free one, and the answered requests are forgotten.)
Arrive(r, S) ==
  /\ Idle
  /\ arrivals < MaxArrivals
  /\ req[r].pc \in {"idle", "done"}
  /\ \A r2 \in 1..(r - 1) : req[r2].pc \notin {"idle", "done"}
  /\ \E path \in S :
       \E access \in (IF Chain(path)[1].mw = "isAuthenticated"
                        THEN Presentable("ACCESS_TOKEN") ELSE {Null}) :
         \E refresh \in (IF Chain(path)[1].mw = "updateAccessToken"
                           THEN Presentable("REFRESH_TOKEN") ELSE {Null}) :
           \E body \in Bodies(path) :
             req' = [r2 \in Slots |->
                       IF r2 = r
                         THEN [NoReq EXCEPT !.route = path, !.idx = 1, !.pc = "dispatch",
                                            !.t0 = now,
                                            !.access_token = access,
                                            !.refresh_token = refresh,
                                            !.body = body]
                       ELSE IF req[r2].pc = "done" THEN NoReq
                       ELSE req[r2]]
  /\ arrivals' = arrivals + 1
  /\ UNCHANGED <<users, redis, now, minted, hist, rq, az, courses, NODE_ENV, accessTokenOptions>>

\* time passes; entries whose TTL has run out are gone
Tick ==
  /\ Idle
  /\ now < MaxTime
  /\ now' = now + 1
  /\ redis' = [k \in Keys |->
                 IF redis[k] # Null /\ redis[k].exp # NoExp /\ redis[k].exp <= now + 1
                   THEN Null ELSE redis[k]]
  /\ hist' = Changed(hist)
  /\ UNCHANGED <<users, minted, req, rq, arrivals, az, courses, NODE_ENV, accessTokenOptions>>

\* (variant: isAuthenticated without its `if (!accessToken)` check)
IsAuthenticated_NoCookieCheck(r) ==
  /\ At(r, "isAuthenticated")
  /\ LET q == req[r]
         v == JwtVerify(q.access_token, "ACCESS_TOKEN")
     IN IF v.err # NoErr
          THEN /\ req' = [req EXCEPT ![r] = NextErr(Step(q, "verify"), v.err)]
               /\ rq' = rq
        ELSE /\ req' = [req EXCEPT ![r] =
                  Await([Step(Step(q, "verify"), "lookup")
                           EXCEPT !.at = Lookup(v.payload.id, q.access_token)],
                        "isAuthenticated:get",
                        [id |-> v.payload.id, user |-> RedisGet(v.payload.id)])]
             /\ rq' = Append(rq, r)
  /\ UNCHANGED <<users, redis, now, minted, hist, arrivals, az, courses, NODE_ENV,
                 accessTokenOptions>>

\* isAuthenticated up to `await redis.get(decoded.id)`
IsAuthenticated(r) ==
  /\ At(r, "isAuthenticated")
  /\ LET q == req[r]
         v == JwtVerify(q.access_token, "ACCESS_TOKEN")
     IN IF q.access_token = Null
          THEN /\ req' = [req EXCEPT ![r] =
                    NextErr(q, ErrorHandler("Please login to access this resource", 401))]
               /\ rq' = rq
        ELSE IF v.err # NoErr
          THEN /\ req' = [req EXCEPT ![r] =
                    NextErr([Step(q, "verify")
                               EXCEPT !.at = Lookup(q.access_token.id, q.access_token)],
                            v.err)]
               /\ rq' = rq
        ELSE /\ req' = [req EXCEPT ![r] =
                  Await([Step(Step(q, "verify"), "lookup")
                           EXCEPT !.at = Lookup(v.payload.id, q.access_token)],
                        "isAuthenticated:get",
                        [id |-> v.payload.id, user |-> RedisGet(v.payload.id)])]
             /\ rq' = Append(rq, r)
  /\ UNCHANGED <<users, redis, now, minted, hist, arrivals, az, courses, NODE_ENV,
                 accessTokenOptions>>

\* (variant: isAuthenticated without its `if (!user)` check: the token alone
\* takes the request on)
IsAuthenticatedGot_NoSessionCheck(r) ==
  /\ Replied(r, "isAuthenticated:get")
  /\ LET q == req[r]
     IN req' = [req EXCEPT ![r] =
          CallNext(Step([q EXCEPT !.user = IF q.loc.user = Null THEN Null
                                           ELSE JSONparse(q.loc.user)],
                        "attach"))]
  /\ rq' = Tail(rq)
  /\ UNCHANGED <<users, redis, now, minted, hist, arrivals, az, courses, NODE_ENV,
                 accessTokenOptions>>

\* isAuthenticated from the reply of redis.get on
IsAuthenticatedGot(r) ==
  /\ Replied(r, "isAuthenticated:get")
  /\ LET q == req[r]
     IN req' = [req EXCEPT ![r] =
          IF q.loc.user = Null
            THEN NextErr(q, ErrorHandler("Please login to access this resource", 401))
          ELSE CallNext(Step([q EXCEPT !.user = JSONparse(q.loc.user)], "attach"))]
  /\ rq' = Tail(rq)
  /\ UNCHANGED <<users, redis, now, minted, hist, arrivals, az, courses, NODE_ENV,
                 accessTokenOptions>>

\* (variant: a gate that lets the request through when the lookup fails)
IsAuthenticatedFailed_Open(r) ==
  /\ Replied(r, "isAuthenticated:get")
  /\ req' = [req EXCEPT ![r] = CallNext([req[r] EXCEPT !.at.failed = TRUE])]
  /\ rq' = Tail(rq)
  /\ UNCHANGED <<users, redis, now, minted, hist, arrivals, az, courses, NODE_ENV,
                 accessTokenOptions>>

\* isAuthenticated when the awaited redis.get rejects (the connection to the
\* store is gone): the handler's promise rejects and catchAsyncErrors passes
\* the error to next
IsAuthenticatedFailed(r) ==
  /\ Replied(r, "isAuthenticated:get")
  /\ req' = [req EXCEPT ![r] =
       NextErr([req[r] EXCEPT !.at.failed = TRUE],
               Err("Error", "Connection is closed.", 0))]
  /\ rq' = Tail(rq)
  /\ UNCHANGED <<users, redis, now, minted, hist, arrivals, az, courses, NODE_ENV,
                 accessTokenOptions>>

\* roles.includes(x)
Includes(roles, x) == \E i \in 1..Len(roles) : roles[i] = x
\* req.user?.role || ''
RoleOrEmpty(user) == IF user = Null \/ user = Undef THEN "" ELSE user.role
\* `${req.user?.role}`
RoleText(user) == IF user = Null \/ user = Undef THEN "undefined" ELSE user.role
\* (variant: authorizedRoles checking only the requests that have an identity)
AuthorizedRolesMw_IdentityOnly(roles, user) ==
  IF user # Null /\ user # Undef /\ ~Includes(roles, user.role)
    THEN ErrorHandler("Role '" \o RoleText(user)
                        \o "' is not allowed to access this resource", 403)
    ELSE NoErr

\* the middleware authorizedRoles(...roles) returns: the error it passes to
\* next, or NoErr when it calls next()
AuthorizedRolesMw(roles, user) ==
  IF ~Includes(roles, RoleOrEmpty(user))
    THEN ErrorHandler("Role '" \o RoleText(user)
                        \o "' is not allowed to access this resource", 403)
    ELSE NoErr

AuthorizedRoles(r) ==
  /\ At(r, "authorizedRoles")
  /\ LET q == Step(req[r], "authorize")
         e == AuthorizedRolesMw(Chain(q.route)[q.idx].roles, q.user)
     IN req' = [req EXCEPT ![r] = IF e # NoErr THEN NextErr(q, e) ELSE CallNext(q)]
  /\ UNCHANGED <<users, redis, now, minted, hist, rq, arrivals, az, courses, NODE_ENV,
                 accessTokenOptions>>

\* (variant: sendToken without its redis.set)
SendToken_NoSession(r, q, user, statusCode) ==
  /\ redis' = redis
  /\ minted' = minted \cup {<<Hex(user._id), now>>}
  /\ hist' = [hist EXCEPT
                !.revoked = @ \ {Hex(user._id)},
                !.fresh = [id |-> Hex(user._id), token |-> SignAccessToken(user),
                           session |-> JSONstringify(user)]]
  /\ accessTokenOptions' =
       IF NODE_ENV = "production" THEN [accessTokenOptions EXCEPT !.secure = TRUE]
       ELSE accessTokenOptions
  /\ req' = [req EXCEPT ![r] =
       Json([q EXCEPT !.res.access_token = SignAccessToken(user),
                      !.res.refresh_token = SignRefreshToken(user),
                      !.res.access_options = accessTokenOptions',
                      !.res.refresh_options = RefreshTokenOptions],
            statusCode, "true", "",
            [user |-> JSONparse(JSONstringify(user)),
             accessToken |-> SignAccessToken(user)])]

\* sendToken(user, statusCode, res)
SendToken(r, q, user, statusCode) ==
  /\ redis' = RedisSet(redis, Hex(user._id), JSONstringify(user))
  /\ minted' = minted \cup {<<Hex(user._id), now>>}
  /\ hist' = [hist EXCEPT
                !.revoked = @ \ {Hex(user._id)},
                !.fresh = [id |-> Hex(user._id), token |-> SignAccessToken(user),
                           session |-> JSONstringify(user)]]
  /\ accessTokenOptions' =
       IF NODE_ENV = "production" THEN [accessTokenOptions EXCEPT !.secure = TRUE]
       ELSE accessTokenOptions
  /\ req' = [req EXCEPT ![r] =
       Json([q EXCEPT !.res.access_token = SignAccessToken(user),
                      !.res.refresh_token = SignRefreshToken(user),
                      !.res.access_options = accessTokenOptions',
                      !.res.refresh_options = RefreshTokenOptions],
            statusCode, "true", "",
            [user |-> JSONparse(JSONstringify(user)),
             accessToken |-> SignAccessToken(user)])]

\* loginUser up to `await User.findOne({ email }).select('+password')`
LoginUser(r) ==
  /\ At(r, "loginUser")
  /\ LET q == Step(req[r], "handler")
     IN req' = [req EXCEPT ![r] =
          IF q.body.email = "" \/ q.body.password = ""
            THEN NextErr(q, ErrorHandler("Email and password required", 400))
          ELSE Await(q, "loginUser:findOne",
                     [user |-> FindOneWithPassword(q.body.email)])]
  /\ UNCHANGED <<users, redis, now, minted, hist, rq, arrivals, az, courses, NODE_ENV,
                 accessTokenOptions>>

\* loginUser from the reply of findOne on: comparePassword, sendToken
LoginUserFound(r) ==
  /\ Resumed(r, "loginUser:findOne")
  /\ LET q == req[r]
         user == q.loc.user
     IN IF user = Null \/ user.password # q.body.password
          THEN /\ req' = [req EXCEPT ![r] =
                    NextErr(q, ErrorHandler("Invalid email or password", 401))]
               /\ UNCHANGED <<redis, minted, hist, accessTokenOptions>>
          ELSE SendToken(r, q, user, 200)
  /\ UNCHANGED <<users, now, rq, arrivals, az, courses, NODE_ENV>>

\* (variant: logoutUser clearing the cookies only)
LogoutUser_KeepsSession(r) ==
  /\ At(r, "logoutUser")
  /\ LET q == Step(req[r], "handler")
     IN req' = [req EXCEPT ![r] =
          Json([q EXCEPT !.res.access_token = Cleared,
                         !.res.refresh_token = Cleared],
               200, "true", "Logged out successfully!", Null)]
  /\ UNCHANGED <<users, redis, now, minted, hist, rq, arrivals, az, courses, NODE_ENV,
                 accessTokenOptions>>

\* logoutUser
LogoutUser(r) ==
  /\ At(r, "logoutUser")
  /\ LET q == Step(req[r], "handler")
     IN /\ redis' = RedisDel(redis, IdOf(q.user))
        /\ hist' = Deleted(hist, ToArg(IdOf(q.user)))
        /\ req' = [req EXCEPT ![r] =
             Json([q EXCEPT !.res.access_token = Cleared,
                            !.res.refresh_token = Cleared],
                  200, "true", "Logged out successfully!", Null)]
  /\ UNCHANGED <<users, now, minted, rq, arrivals, az, courses, NODE_ENV, accessTokenOptions>>

\* (variant: updateAccessToken without its try/catch: what jwt.verify throws
\* reaches the error middleware as it is)
UpdateAccessToken_NoCatch(r) ==
  /\ At(r, "updateAccessToken")
  /\ LET q == Step(req[r], "handler")
         v == JwtVerify(q.refresh_token, "REFRESH_TOKEN")
     IN IF v.err # NoErr
          THEN /\ req' = [req EXCEPT ![r] = NextErr(q, v.err)]
               /\ rq' = rq
          ELSE /\ req' = [req EXCEPT ![r] =
                    Await([q EXCEPT !.at = Lookup(v.payload.id, q.refresh_token)],
                          "updateAccessToken:get",
                          [id |-> v.payload.id, session |-> RedisGet(v.payload.id)])]
               /\ rq' = Append(rq, r)
  /\ UNCHANGED <<users, redis, now, minted, hist, arrivals, az, courses, NODE_ENV,
                 accessTokenOptions>>

\* updateAccessToken up to `await redis.get(decoded.id)`
UpdateAccessToken(r) ==
  /\ At(r, "updateAccessToken")
  /\ LET q == Step(req[r], "handler")
         v == JwtVerify(q.refresh_token, "REFRESH_TOKEN")
     IN IF v.err # NoErr
          THEN /\ req' = [req EXCEPT ![r] = NextErr(q, ErrorHandler(v.err.message, 400))]
               /\ rq' = rq
          ELSE /\ req' = [req EXCEPT ![r] =
                    Await([q EXCEPT !.at = Lookup(v.payload.id, q.refresh_token)],
                          "updateAccessToken:get",
                          [id |-> v.payload.id, session |-> RedisGet(v.payload.id)])]
               /\ rq' = Append(rq, r)
  /\ UNCHANGED <<users, redis, now, minted, hist, arrivals, az, courses, NODE_ENV,
                 accessTokenOptions>>

\* (variant: updateAccessToken without its `if (!session)` check:
\* JSON.parse(null) is null, and user._id throws into the catch)
UpdateAccessTokenGot_NoSessionCheck(r) ==
  /\ Replied(r, "updateAccessToken:get")
  /\ LET q == req[r]
         user == IF q.loc.session = Null THEN Null ELSE JSONparse(q.loc.session)
     IN IF user = Null
          THEN /\ req' = [req EXCEPT ![r] =
                    NextErr(q, ErrorHandler("Cannot read properties of null", 400))]
               /\ UNCHANGED <<redis, minted, hist>>
        ELSE /\ redis' = RedisSetEx(redis, user._id, JSONstringifyParsed(user), SessionTTL)
             /\ minted' = minted \cup {<<user._id, now>>}
             /\ hist' = [Changed(hist) EXCEPT !.redeemed = @ \cup {q.refresh_token}]
             /\ req' = [req EXCEPT ![r] =
                  Json([q EXCEPT !.user = user,
                                 !.res.access_token =
                                   JwtSign(user._id, "ACCESS_TOKEN", AccessLife),
                                 !.res.refresh_token =
                                   JwtSign(user._id, "REFRESH_TOKEN", RefreshLife),
                                 !.res.access_options = accessTokenOptions,
                                 !.res.refresh_options = RefreshTokenOptions],
                       200, "", "",
                       [status |-> "success",
                        refreshToken |-> JwtSign(user._id, "REFRESH_TOKEN", RefreshLife)])]
  /\ rq' = Tail(rq)
  /\ UNCHANGED <<users, now, arrivals, az, courses, NODE_ENV, accessTokenOptions>>

\* (variant: updateAccessToken returning the access token in the body too,
\* as sendToken does)
UpdateAccessTokenGot_AccessInBody(r) ==
  /\ Replied(r, "updateAccessToken:get")
  /\ LET q == req[r]
         user == JSONparse(q.loc.session)
     IN IF q.loc.session = Null
          THEN /\ req' = [req EXCEPT ![r] =
                    NextErr(q, ErrorHandler("Please login to access this route", 401))]
               /\ UNCHANGED <<redis, minted, hist>>
        ELSE IF user = Null
          THEN \* user._id of null throws a TypeError, caught by the handler
               /\ req' = [req EXCEPT ![r] =
                    NextErr(q, ErrorHandler("Cannot read properties of null", 400))]
               /\ UNCHANGED <<redis, minted, hist>>
        ELSE /\ redis' = RedisSetEx(redis, user._id, JSONstringifyParsed(user), SessionTTL)
             /\ minted' = minted \cup {<<user._id, now>>}
             /\ hist' = [Changed(hist) EXCEPT !.redeemed = @ \cup {q.refresh_token}]
             /\ req' = [req EXCEPT ![r] =
                  Json([q EXCEPT !.user = user,
                                 !.res.access_token =
                                   JwtSign(user._id, "ACCESS_TOKEN", AccessLife),
                                 !.res.refresh_token =
                                   JwtSign(user._id, "REFRESH_TOKEN", RefreshLife),
                                 !.res.access_options = accessTokenOptions,
                                 !.res.refresh_options = RefreshTokenOptions],
                       200, "", "",
                       [status |-> "success",
                        accessToken |-> JwtSign(user._id, "ACCESS_TOKEN", AccessLife),
                        refreshToken |-> JwtSign(user._id, "REFRESH_TOKEN", RefreshLife)])]
  /\ rq' = Tail(rq)
  /\ UNCHANGED <<users, now, arrivals, az, courses, NODE_ENV, accessTokenOptions>>

\* (variant: updateAccessToken refusing a refresh token that was redeemed
\* before)
UpdateAccessTokenGot_SingleUse(r) ==
  /\ Replied(r, "updateAccessToken:get")
  /\ LET q == req[r]
         user == JSONparse(q.loc.session)
     IN IF q.loc.session = Null \/ q.refresh_token \in hist.redeemed
          THEN /\ req' = [req EXCEPT ![r] =
                    NextErr(q, ErrorHandler("Please login to access this route", 401))]
               /\ UNCHANGED <<redis, minted, hist>>
        ELSE IF user = Null
          THEN \* user._id of null throws a TypeError, caught by the handler
               /\ req' = [req EXCEPT ![r] =
                    NextErr(q, ErrorHandler("Cannot read properties of null", 400))]
               /\ UNCHANGED <<redis, minted, hist>>
        ELSE /\ redis' = RedisSetEx(redis, user._id, JSONstringifyParsed(user), SessionTTL)
             /\ minted' = minted \cup {<<user._id, now>>}
             /\ hist' = [Changed(hist) EXCEPT !.redeemed = @ \cup {q.refresh_token}]
             /\ req' = [req EXCEPT ![r] =
                  Json([q EXCEPT !.user = user,
                                 !.res.access_token =
                                   JwtSign(user._id, "ACCESS_TOKEN", AccessLife),
                                 !.res.refresh_token =
                                   JwtSign(user._id, "REFRESH_TOKEN", RefreshLife),
                                 !.res.access_options = accessTokenOptions,
                                 !.res.refresh_options = RefreshTokenOptions],
                       200, "", "",
                       [status |-> "success",
                        refreshToken |-> JwtSign(user._id, "REFRESH_TOKEN", RefreshLife)])]
  /\ rq' = Tail(rq)
  /\ UNCHANGED <<users, now, arrivals, az, courses, NODE_ENV, accessTokenOptions>>

\* updateAccessToken from the reply of redis.get on
UpdateAccessTokenGot(r) ==
  /\ Replied(r, "updateAccessToken:get")
  /\ LET q == req[r]
         user == JSONparse(q.loc.session)
     IN IF q.loc.session = Null
          THEN /\ req' = [req EXCEPT ![r] =
                    NextErr(q, ErrorHandler("Please login to access this route", 401))]
               /\ UNCHANGED <<redis, minted, hist>>
        ELSE IF user = Null
          THEN \* user._id of null throws a TypeError, caught by the handler
               /\ req' = [req EXCEPT ![r] =
                    NextErr(q, ErrorHandler("Cannot read properties of null", 400))]
               /\ UNCHANGED <<redis, minted, hist>>
        ELSE /\ redis' = RedisSetEx(redis, user._id, JSONstringifyParsed(user), SessionTTL)
             /\ minted' = minted \cup {<<user._id, now>>}
             /\ hist' = [Changed(hist) EXCEPT !.redeemed = @ \cup {q.refresh_token}]
             /\ req' = [req EXCEPT ![r] =
                  Json([q EXCEPT !.user = user,
                                 !.res.access_token =
                                   JwtSign(user._id, "ACCESS_TOKEN", AccessLife),
                                 !.res.refresh_token =
                                   JwtSign(user._id, "REFRESH_TOKEN", RefreshLife),
                                 !.res.access_options = accessTokenOptions,
                                 !.res.refresh_options = RefreshTokenOptions],
                       200, "", "",
                       [status |-> "success",
                        refreshToken |-> JwtSign(user._id, "REFRESH_TOKEN", RefreshLife)])]
  /\ rq' = Tail(rq)
  /\ UNCHANGED <<users, now, arrivals, az, courses, NODE_ENV, accessTokenOptions>>

\* index and UserService.getAllUsers
Index(r) ==
  /\ At(r, "index")
  /\ LET q == Step(req[r], "handler")
         found == {i \in UserIds : users[i] # Null}
     IN req' = [req EXCEPT ![r] =
          Json(q, 200, "true", "",
               [nbHits |-> Cardinality(found),
                users |-> [i \in found |-> JSONparse(JSONstringify(Unselect(users[i])))]])]
  /\ UNCHANGED <<users, redis, now, minted, hist, rq, arrivals, az, courses, NODE_ENV,
                 accessTokenOptions>>

\* index and UserService.getAllUsers when `await User.find()` rejects: the
\* service's own catch answers
IndexFailed(r) ==
  /\ At(r, "index")
  /\ LET q == Raised(Step(req[r], "handler"), NetworkError)
     IN req' = [req EXCEPT ![r] =
          Json(q, 500, "false", "",
               [error |-> "Error processing getAllUsers: " \o NetworkError.message])]
  /\ UNCHANGED <<users, redis, now, minted, hist, rq, arrivals, az, courses, NODE_ENV,
                 accessTokenOptions>>

\* the handler behind authorizedRoles used on its own
Handler(r) ==
  /\ At(r, "handler")
  /\ req' = [req EXCEPT ![r] = Json(Step(req[r], "handler"), 200, "true", "", Null)]
  /\ UNCHANGED <<users, redis, now, minted, hist, rq, arrivals, az, courses, NODE_ENV,
                 accessTokenOptions>>

\* updateUserRole and UserService.updateUserRole
UpdateUserRole(r) ==
  /\ At(r, "updateUserRole")
  /\ LET q == Step(req[r], "handler")
         i == FromHex(q.body.id)
     IN /\ users' = IF users[i] = Null THEN users
                    ELSE [users EXCEPT ![i].role = q.body.role]
        /\ req' = [req EXCEPT ![r] =
             Json(q, 201, "true", "",
                  [user |-> IF users[i] = Null THEN Null
                            ELSE JSONparse(JSONstringify(Unselect(users'[i])))])]
  /\ hist' = Changed(hist)
  /\ UNCHANGED <<redis, now, minted, rq, arrivals, az, courses, NODE_ENV, accessTokenOptions>>

\* deleteUser and UserService.deleteUserById up to `await User.findById(id)`
DeleteUser(r) ==
  /\ At(r, "deleteUser")
  /\ LET q == Step(req[r], "handler")
     IN req' = [req EXCEPT ![r] =
          Await(q, "deleteUser:findById",
                IF q.body.id \in HexIds
                  THEN [user |-> FindById(q.body.id), err |-> NoErr]
                  ELSE [user |-> Null, err |-> CastError])]
  /\ UNCHANGED <<users, redis, now, minted, hist, rq, arrivals, az, courses, NODE_ENV,
                 accessTokenOptions>>

\* ... from the reply of findById to `await user.deleteOne()`
DeleteUserFound(r) ==
  /\ Resumed(r, "deleteUser:findById")
  /\ LET q == req[r]
     IN IF q.loc.err # NoErr
          THEN \* findById rejects: error.statusCode || 500
               /\ req' = [req EXCEPT ![r] =
                    NextErr(Raised(q, q.loc.err),
                            ErrorHandler("Error processing delete user: "
                                           \o q.loc.err.message,
                                         IF q.loc.err.statusCode = 0 THEN 500
                                         ELSE q.loc.err.statusCode))]
               /\ UNCHANGED <<users, hist>>
        ELSE IF q.loc.user = Null
          THEN /\ req' = [req EXCEPT ![r] =
                    NextErr(q, ErrorHandler("Error processing delete user: User not found", 404))]
               /\ UNCHANGED <<users, hist>>
          ELSE /\ users' = [users EXCEPT ![FromHex(q.body.id)] = Null]
               /\ hist' = Changed(hist)
               /\ req' = [req EXCEPT ![r] = Await(q, "deleteUser:deleteOne", q.loc)]
  /\ UNCHANGED <<redis, now, minted, rq, arrivals, az, courses, NODE_ENV, accessTokenOptions>>

\* ... from the reply of deleteOne on: `await redis.del(id)`, the response
DeleteUserDeleted(r) ==
  /\ Resumed(r, "deleteUser:deleteOne")
  /\ redis' = RedisDel(redis, req[r].body.id)
  /\ hist' = Deleted(hist, req[r].body.id)
  /\ req' = [req EXCEPT ![r] = Json(req[r], 204, "true", "User deleted successfully", Null)]
  /\ UNCHANGED <<users, now, minted, rq, arrivals, az, courses, NODE_ENV, accessTokenOptions>>

\* updateUserInfo up to `await User.findById(userId)`
UpdateUserInfo(r) ==
  /\ At(r, "updateUserInfo")
  /\ LET q == Step(req[r], "handler")
         userId == IdOf(q.user)
     IN req' = [req EXCEPT ![r] =
          Await(q, "updateUserInfo:findById",
                [userId |-> userId, user |-> FindById(userId)])]
  /\ UNCHANGED <<users, redis, now, minted, hist, rq, arrivals, az, courses, NODE_ENV,
                 accessTokenOptions>>

\* user.name = name when a name is given and the user was found
WithName(user, name) ==
  IF name # "" /\ user # Null THEN [user EXCEPT !.name = name] ELSE user

\* `await user?.save()`: the paths that changed are written to the document
\* with the id of `user`; ok is FALSE when save throws err (the document is
\* gone, or the unique index on email rejects the write: another document
\* has that email)
Save(loaded, user) ==
  IF user = Null \/ user = loaded THEN [ok |-> TRUE, err |-> NoErr, users |-> users]
  ELSE IF users[user._id] = Null
    THEN [ok |-> FALSE, err |-> DocumentNotFound, users |-> users]
  ELSE IF user.email # loaded.email /\ ByEmail(user.email) \ {user._id} # {}
    THEN [ok |-> FALSE, err |-> DuplicateKey, users |-> users]
  ELSE [ok |-> TRUE, err |-> NoErr,
        users |-> [users EXCEPT ![user._id] =
                     [f \in DOMAIN @ |->
                        IF f \in DOMAIN user /\ user[f] # loaded[f] THEN user[f] ELSE @[f]]]]

\* the rest of updateUserInfo from `user.name = name` to `await user?.save()`
UpdateUserInfoSave(r, q, user) ==
  LET named == WithName(user, q.body.name)
      saved == Save(q.loc.user, named)
  IN /\ users' = saved.users
     /\ hist' = IF saved.users = users THEN hist ELSE Changed(hist)
     /\ req' = [req EXCEPT ![r] =
          Await(q, "updateUserInfo:save",
                [userId |-> q.loc.userId, user |-> named, ok |-> saved.ok,
                 err |-> saved.err])]

\* ... from the reply of findById to the next await
UpdateUserInfoFound(r) ==
  /\ Resumed(r, "updateUserInfo:findById")
  /\ LET q == req[r]
     IN IF q.body.email # "" /\ q.loc.user # Null
          THEN /\ req' = [req EXCEPT ![r] =
                    Await(q, "updateUserInfo:findOne",
                          [userId |-> q.loc.userId, user |-> q.loc.user,
                           emailInUse |-> FindOne(q.body.email)])]
               /\ UNCHANGED <<users, hist>>
          ELSE UpdateUserInfoSave(r, q, q.loc.user)
  /\ UNCHANGED <<redis, now, minted, rq, arrivals, az, courses, NODE_ENV, accessTokenOptions>>

\* ... from the reply of findOne({ email }) to `await user?.save()`
UpdateUserInfoEmail(r) ==
  /\ Resumed(r, "updateUserInfo:findOne")
  /\ LET q == req[r]
     IN IF q.loc.emailInUse # Null
          THEN /\ req' = [req EXCEPT ![r] =
                    NextErr(q, ErrorHandler("Email already in use", 409))]
               /\ UNCHANGED <<users, hist>>
          ELSE UpdateUserInfoSave(r, q, [q.loc.user EXCEPT !.email = q.body.email])
  /\ UNCHANGED <<redis, now, minted, rq, arrivals, az, courses, NODE_ENV, accessTokenOptions>>

\* ... from the reply of save on: `await redis.set(userId, ...)`, the response
UpdateUserInfoSaved(r) ==
  /\ Resumed(r, "updateUserInfo:save")
  /\ LET q == req[r]
     IN IF ~q.loc.ok
          THEN /\ req' = [req EXCEPT ![r] =
                    NextErr(Raised(q, q.loc.err), ErrorHandler(q.loc.err.message, 400))]
               /\ UNCHANGED <<redis, hist>>
          ELSE /\ redis' = RedisSet(redis, q.loc.userId, JSONstringify(q.loc.user))
               /\ hist' = Changed(hist)
               /\ req' = [req EXCEPT ![r] =
                    Json(q, 200, "true", "",
                         [user |-> JSONparse(JSONstringify(q.loc.user))])]
  /\ UNCHANGED <<users, now, minted, rq, arrivals, az, courses, NODE_ENV, accessTokenOptions>>

\* registerUser up to `await User.findOne({ email })`
RegisterUser(r) ==
  /\ At(r, "registerUser")
  /\ LET q == Step(req[r], "handler")
     IN req' = [req EXCEPT ![r] =
          Await(q, "registerUser:findOne", [emailExists |-> FindOne(q.body.email)])]
  /\ UNCHANGED <<users, courses, redis, now, minted, hist, rq, arrivals, az, NODE_ENV,
                 accessTokenOptions>>

\* ... from the reply of findOne to `await sendMail(...)` (the activation
\* token is signed and the mail rendered on the way)
RegisterUserChecked(r) ==
  /\ Resumed(r, "registerUser:findOne")
  /\ LET q == req[r]
     IN req' = [req EXCEPT ![r] =
          IF q.loc.emailExists # Null
            THEN NextErr(q, ErrorHandler("Email already exists", 409))
          ELSE Await(q, "registerUser:sendMail",
                     [token |-> [secret |-> "ACTIVATION_SECRET", email |-> q.body.email,
                                 exp |-> now + AccessLife]])]
  /\ UNCHANGED <<users, courses, redis, now, minted, hist, rq, arrivals, az, NODE_ENV,
                 accessTokenOptions>>

\* ... when the mail was sent
RegisterUserMailed(r) ==
  /\ Resumed(r, "registerUser:sendMail")
  /\ req' = [req EXCEPT ![r] =
       Json(req[r], 201, "true", "Please check your email to activate your account",
            [activationToken |-> req[r].loc.token])]
  /\ UNCHANGED <<users, courses, redis, now, minted, hist, rq, arrivals, az, NODE_ENV,
                 accessTokenOptions>>

\* ... when sendMail rejects: the inner catch
RegisterUserMailFailed(r) ==
  /\ Resumed(r, "registerUser:sendMail")
  /\ req' = [req EXCEPT ![r] =
       NextErr(Raised(req[r], MailError), ErrorHandler(MailError.message, 400))]
  /\ UNCHANGED <<users, courses, redis, now, minted, hist, rq, arrivals, az, NODE_ENV,
                 accessTokenOptions>>

\* order create up to `await User.findById(req.user?._id)`
OrderCreate(r) ==
  /\ At(r, "order.create")
  /\ LET q == Step(req[r], "handler")
     IN req' = [req EXCEPT ![r] =
          Await(q, "order.create:findUser", [user |-> FindById(IdOf(q.user))])]
  /\ UNCHANGED <<users, courses, redis, now, minted, hist, rq, arrivals, az, NODE_ENV,
                 accessTokenOptions>>

\* ... from the reply of User.findById to `await Course.findById(courseId)`
OrderCreateUser(r) ==
  /\ Resumed(r, "order.create:findUser")
  /\ LET q == req[r]
         user == q.loc.user
     IN req' = [req EXCEPT ![r] =
          IF user # Null /\ \E c \in user.courses : Hex(c) = q.body.id
            THEN NextErr(q, ErrorHandler("You have already purchased this course", 409))
          ELSE Await(q, "order.create:findCourse",
                     [user |-> user, course |-> CourseFindById(q.body.id)])]
  /\ UNCHANGED <<users, courses, redis, now, minted, hist, rq, arrivals, az, NODE_ENV,
                 accessTokenOptions>>

\* user?.courses.push(course._id); `await user?.save()`: the array push is
\* written as a push of the new element
PushCourse(q) ==
  LET user == q.loc.user
  IN IF user = Null THEN [ok |-> TRUE, err |-> NoErr, users |-> users]
     ELSE IF users[user._id] = Null
       THEN [ok |-> FALSE, err |-> DocumentNotFound, users |-> users]
     ELSE [ok |-> TRUE, err |-> NoErr,
           users |-> [users EXCEPT ![user._id].courses = @ \cup {q.loc.course._id}]]

\* ... from the mail on: the purchase is added to the user, `await user?.save()`
OrderCreatePush(r, q) ==
  LET saved == PushCourse(q)
  IN /\ users' = saved.users
     /\ hist' = IF saved.users = users THEN hist ELSE Changed(hist)
     /\ req' = [req EXCEPT ![r] =
          Await(q, "order.create:saveUser",
                [user |-> q.loc.user, course |-> q.loc.course, err |-> saved.err])]

\* ... from the reply of Course.findById to `await sendMail(...)`; no mail
\* is sent when the user was not found
OrderCreateCourse(r) ==
  /\ Resumed(r, "order.create:findCourse")
  /\ LET q == req[r]
     IN IF q.loc.course = Null
          THEN /\ req' = [req EXCEPT ![r] =
                    NextErr(q, ErrorHandler("Course does not exist", 404))]
               /\ UNCHANGED <<users, hist>>
        ELSE IF q.loc.user # Null
          THEN /\ req' = [req EXCEPT ![r] = Await(q, "order.create:sendMail", q.loc)]
               /\ UNCHANGED <<users, hist>>
        ELSE OrderCreatePush(r, q)
  /\ UNCHANGED <<courses, redis, now, minted, rq, arrivals, az, NODE_ENV,
                 accessTokenOptions>>

\* ... when the mail was sent
OrderCreateMailed(r) ==
  /\ Resumed(r, "order.create:sendMail")
  /\ OrderCreatePush(r, req[r])
  /\ UNCHANGED <<courses, redis, now, minted, rq, arrivals, az, NODE_ENV,
                 accessTokenOptions>>

\* ... when sendMail rejects: the inner catch
OrderCreateMailFailed(r) ==
  /\ Resumed(r, "order.create:sendMail")
  /\ req' = [req EXCEPT ![r] =
       NextErr(Raised(req[r], MailError),
               ErrorHandler("Error sending order confirmation email "
                              \o MailError.message, 500))]
  /\ UNCHANGED <<users, courses, redis, now, minted, hist, rq, arrivals, az, NODE_ENV,
                 accessTokenOptions>>

\* ... from the reply of user.save() on: `await Notification.create(...)`,
\* then course.purchased = (course.purchased ?? 0) + 1 on the course the
\* request loaded, and `await course.save()`
OrderCreateSaved(r) ==
  /\ Resumed(r, "order.create:saveUser")
  /\ LET q == req[r]
         c == q.loc.course._id
     IN IF q.loc.err # NoErr \/ courses[c] = Null
          THEN /\ req' = [req EXCEPT ![r] =
                    NextErr(Raised(q, IF q.loc.err # NoErr THEN q.loc.err
                                      ELSE DocumentNotFound),
                            ErrorHandler("Error processing create order :"
                                           \o (IF q.loc.err # NoErr THEN q.loc.err.message
                                               ELSE DocumentNotFound.message),
                                         500))]
               /\ UNCHANGED <<courses, hist>>
          ELSE /\ courses' = [courses EXCEPT ![c].purchased = q.loc.course.purchased + 1]
               /\ hist' = [hist EXCEPT !.purchases[c] = @ + 1]
               /\ req' = [req EXCEPT ![r] = Await(q, "order.create:saveCourse", q.loc)]
  /\ UNCHANGED <<users, redis, now, minted, rq, arrivals, az, NODE_ENV,
                 accessTokenOptions>>

\* ... from the reply of course.save() on: OrderService.createNewOrder
\* (`await Order.create(data)`) and its response
OrderCreatePurchased(r) ==
  /\ Resumed(r, "order.create:saveCourse")
  /\ LET q == req[r]
     IN /\ req' = [req EXCEPT ![r] =
             Json(q, 201, "true", "",
                  [order |-> [courseId |-> Hex(q.loc.course._id),
                              userId |-> IF q.loc.user = Null THEN NoId
                                         ELSE Hex(q.loc.user._id)]])]
        /\ hist' = [hist EXCEPT !.ordered =
                      @ \cup {<<IdOf(q.user), Hex(q.loc.course._id)>>}]
  /\ UNCHANGED <<users, courses, redis, now, minted, rq, arrivals, az, NODE_ENV,
                 accessTokenOptions>>

\* req.user?.courses: the purchases of the attached identity
CoursesOf(user) == IF user = Null \/ user = Undef THEN {} ELSE user.courses

\* getCourseBoughtByUser up to `await Course.findById(courseId)`
GetCourseBoughtByUser(r) ==
  /\ At(r, "getCourseBoughtByUser")
  /\ LET q == Step(req[r], "handler")
     IN req' = [req EXCEPT ![r] =
          IF q.body.id \notin CoursesOf(q.user)
            THEN NextErr(q, ErrorHandler("You do not have access to this course", 403))
          ELSE Await(q, "getCourseBoughtByUser:findById",
                     [course |-> CourseFindById(q.body.id)])]
  /\ UNCHANGED <<users, courses, redis, now, minted, hist, rq, arrivals, az, NODE_ENV,
                 accessTokenOptions>>

\* ... from the reply of findById on
GetCourseBoughtByUserFound(r) ==
  /\ Resumed(r, "getCourseBoughtByUser:findById")
  /\ req' = [req EXCEPT ![r] =
       Json(req[r], 200, "true", "",
            [content |-> IF req[r].loc.course = Null THEN Undef
                         ELSE req[r].loc.course.name])]
  /\ UNCHANGED <<users, courses, redis, now, minted, hist, rq, arrivals, az, NODE_ENV,
                 accessTokenOptions>>

\* a request that changes a course is on its way
Mutating(r) ==
  /\ req[r].route \in {"POST /courses", "PUT /courses/:id", "DELETE /courses/:id"}
  /\ req[r].pc \notin {"idle", "done"}
\* what a read of the courses meets when it starts (history): the Course
\* collection, and whether no request that changes a course is on its way
Meets == [seen |-> courses, quiet |-> \A r \in Slots : ~Mutating(r)]

\* course create without a thumbnail, and CourseService.createCourse up to
\* `await Course.create(data)`
CourseCreate(r) ==
  /\ At(r, "course.create")
  /\ LET q == Step(req[r], "handler")
         c == CHOOSE c \in CourseIds :
                courses[c] = Null /\ \A d \in CourseIds : courses[d] = Null => c <= d
         course == [_id |-> c, name |-> q.body.name, purchased |-> 0]
     IN /\ courses' = [courses EXCEPT ![c] = course]
        /\ req' = [req EXCEPT ![r] = Await(q, "course.create:create", [course |-> course])]
  /\ UNCHANGED <<users, redis, now, minted, hist, rq, arrivals, az, NODE_ENV,
                 accessTokenOptions>>

\* ... from the reply of Course.create on
CourseCreated(r) ==
  /\ Resumed(r, "course.create:create")
  /\ req' = [req EXCEPT ![r] =
       Json(req[r], 201, "true", "",
            [course |-> JSONparse(JSONstringify(req[r].loc.course))])]
  /\ UNCHANGED <<users, courses, redis, now, minted, hist, rq, arrivals, az, NODE_ENV,
                 accessTokenOptions>>

\* course update without a thumbnail, up to
\* `await Course.findByIdAndUpdate(id, { $set: data }, { new: true })`
CourseUpdate(r) ==
  /\ At(r, "course.update")
  /\ LET q == Step(req[r], "handler")
         c == CourseFromHex(q.body.id)
     IN /\ courses' = IF courses[c] = Null THEN courses
                      ELSE [courses EXCEPT ![c].name = q.body.name]
        /\ req' = [req EXCEPT ![r] =
             Await(q, "course.update:findByIdAndUpdate", [course |-> courses'[c]])]
  /\ UNCHANGED <<users, redis, now, minted, hist, rq, arrivals, az, NODE_ENV,
                 accessTokenOptions>>

\* ... from the reply of findByIdAndUpdate on
CourseUpdated(r) ==
  /\ Resumed(r, "course.update:findByIdAndUpdate")
  /\ req' = [req EXCEPT ![r] =
       Json(req[r], 200, "true", "",
            [course |-> JSONparse(JSONstringify(req[r].loc.course))])]
  /\ UNCHANGED <<users, courses, redis, now, minted, hist, rq, arrivals, az, NODE_ENV,
                 accessTokenOptions>>

\* destroy and CourseService.deleteCourseById up to `await Course.findById(id)`
CourseDestroy(r) ==
  /\ At(r, "course.destroy")
  /\ LET q == Step(req[r], "handler")
     IN req' = [req EXCEPT ![r] =
          Await(q, "course.destroy:findById", [course |-> CourseFindById(q.body.id)])]
  /\ UNCHANGED <<users, courses, redis, now, minted, hist, rq, arrivals, az, NODE_ENV,
                 accessTokenOptions>>

\* ... from the reply of findById to `await course.deleteOne()`
CourseDestroyFound(r) ==
  /\ Resumed(r, "course.destroy:findById")
  /\ LET q == req[r]
     IN IF q.loc.course = Null
          THEN /\ req' = [req EXCEPT ![r] =
                    NextErr(q, ErrorHandler("Error processing destroy action: Course not found",
                                            404))]
               /\ courses' = courses
          ELSE /\ courses' = [courses EXCEPT ![q.loc.course._id] = Null]
               /\ req' = [req EXCEPT ![r] = Await(q, "course.destroy:deleteOne", q.loc)]
  /\ UNCHANGED <<users, redis, now, minted, hist, rq, arrivals, az, NODE_ENV,
                 accessTokenOptions>>

\* ... from the reply of deleteOne on: redis.del(id), the response
CourseDestroyDeleted(r) ==
  /\ Resumed(r, "course.destroy:deleteOne")
  /\ redis' = RedisDel(redis, req[r].body.id)
  /\ req' = [req EXCEPT ![r] =
       Json(req[r], 204, "true", "Course deleted successfully", Null)]
  /\ UNCHANGED <<users, courses, now, minted, hist, rq, arrivals, az, NODE_ENV,
                 accessTokenOptions>>

\* show up to `await redis.get(id)`
Show(r) ==
  /\ At(r, "course.show")
  /\ LET q == Step(req[r], "handler")
     IN req' = [req EXCEPT ![r] =
          Await([q EXCEPT !.at = Meets], "course.show:get",
                [cachedData |-> RedisGet(q.body.id)])]
  /\ rq' = Append(rq, r)
  /\ UNCHANGED <<users, courses, redis, now, minted, hist, arrivals, az, NODE_ENV,
                 accessTokenOptions>>

\* ... from the reply of redis.get on: the cached course, or
\* fetchAndCacheCourse(id) up to `await Course.findById(id).select(...)`
ShowGot(r) ==
  /\ Replied(r, "course.show:get")
  /\ LET q == req[r]
     IN req' = [req EXCEPT ![r] =
          IF q.loc.cachedData # Null
            THEN Json(q, 200, "true", "", [course |-> JSONparse(q.loc.cachedData)])
          ELSE Await(q, "course.show:findById", [course |-> CourseFindById(q.body.id)])]
  /\ rq' = Tail(rq)
  /\ UNCHANGED <<users, courses, redis, now, minted, hist, arrivals, az, NODE_ENV,
                 accessTokenOptions>>

\* ... from the reply of findById on: `await redis.set(id,
\* JSON.stringify(course))`, the response
ShowFound(r) ==
  /\ Resumed(r, "course.show:findById")
  /\ LET q == req[r]
     IN /\ redis' = RedisSet(redis, q.body.id, JSONstringify(q.loc.course))
        /\ hist' = Changed(hist)
        /\ req' = [req EXCEPT ![r] =
             Json(q, 200, "true", "", [course |-> JSONparse(JSONstringify(q.loc.course))])]
  /\ UNCHANGED <<users, courses, now, minted, rq, arrivals, az, NODE_ENV,
                 accessTokenOptions>>

\* Course.find(): the courses there are, by id
CourseFind == [c \in {d \in CourseIds : courses[d] # Null} |-> courses[c]]
\* JSON.stringify of the array of courses
JSONstringifyAll(list) == [json |-> [c \in DOMAIN list |-> JSONstringify(list[c]).json]]

\* index up to `await redis.get('allCourses')`
CourseIndex(r) ==
  /\ At(r, "course.index")
  /\ LET q == Step(req[r], "handler")
     IN req' = [req EXCEPT ![r] =
          Await([q EXCEPT !.at = Meets], "course.index:get",
                [cachedData |-> RedisGet(AllCourses)])]
  /\ rq' = Append(rq, r)
  /\ UNCHANGED <<users, courses, redis, now, minted, hist, arrivals, az, NODE_ENV,
                 accessTokenOptions>>

\* ... from the reply of redis.get on: the cached list, or
\* fetchAndCacheCourse() up to `await Course.find().select(...)`
CourseIndexGot(r) ==
  /\ Replied(r, "course.index:get")
  /\ LET q == req[r]
     IN req' = [req EXCEPT ![r] =
          IF q.loc.cachedData # Null
            THEN Json(q, 200, "true", "", [courses |-> JSONparse(q.loc.cachedData)])
          ELSE Await(q, "course.index:find", [courses |-> CourseFind])]
  /\ rq' = Tail(rq)
  /\ UNCHANGED <<users, courses, redis, now, minted, hist, arrivals, az, NODE_ENV,
                 accessTokenOptions>>

\* ... from the reply of find on: `await redis.set('allCourses',
\* JSON.stringify(courses))`, the response
CourseIndexFound(r) ==
  /\ Resumed(r, "course.index:find")
  /\ LET q == req[r]
     IN /\ redis' = RedisSet(redis, AllCourses, JSONstringifyAll(q.loc.courses))
        /\ req' = [req EXCEPT ![r] =
             Json(q, 200, "true", "",
                  [courses |-> JSONparse(JSONstringifyAll(q.loc.courses))])]
  /\ UNCHANGED <<users, courses, now, minted, hist, rq, arrivals, az, NODE_ENV,
                 accessTokenOptions>>

\* getUserInfo: UserService.getUserById(req.user?._id, res) is called and not
\* awaited; it runs up to `await redis.get(id)`, and the handler returns
GetUserInfo(r) ==
  /\ At(r, "getUserInfo")
  /\ LET q == Step(req[r], "handler")
     IN req' = [req EXCEPT ![r] =
          Await(q, "getUserById:get", [userJson |-> RedisGet(ToArg(IdOf(q.user)))])]
  /\ rq' = Append(rq, r)
  /\ UNCHANGED <<users, courses, redis, now, minted, hist, arrivals, az, NODE_ENV,
                 accessTokenOptions>>

\* UserService.getUserById from the reply of redis.get on: the response when
\* there is a value; nothing when there is none (the function returns, and
\* the request stays without an answer)
GetUserByIdGot(r) ==
  /\ Replied(r, "getUserById:get")
  /\ LET q == req[r]
     IN req' = [req EXCEPT ![r] =
          IF q.loc.userJson # Null
            THEN Json(q, 200, "true", "", [user |-> JSONparse(q.loc.userJson)])
          ELSE [q EXCEPT !.pc = "unanswered", !.loc = Null]]
  /\ rq' = Tail(rq)
  /\ UNCHANGED <<users, courses, redis, now, minted, hist, arrivals, az, NODE_ENV,
                 accessTokenOptions>>

\* ------------------------------------------------------- specifications
\* the gate and the handlers of the session and token lifecycle
Gates(r) ==
  \/ IsAuthenticated(r)
  \/ IsAuthenticatedGot(r)
  \/ AuthorizedRoles(r)
  \/ LoginUser(r)
  \/ LoginUserFound(r)
  \/ LogoutUser(r)
  \/ UpdateAccessToken(r)
  \/ UpdateAccessTokenGot(r)
  \/ Index(r)

Next ==
  \/ Tick
  \/ \E r \in Slots : Arrive(r, Core) \/ Gates(r)

Spec == Init /\ [][Next]_vars

\* the profile route and the logout route, for the identities that have
\* logged in
NextProfile ==
  \/ Tick
  \/ \E r \in Slots :
       \/ Arrive(r, Profile \cup {"GET /logout"})
       \/ IsAuthenticated(r)
       \/ IsAuthenticatedGot(r)
       \/ LogoutUser(r)
       \/ UpdateUserInfo(r)
       \/ UpdateUserInfoFound(r)
       \/ UpdateUserInfoEmail(r)
       \/ UpdateUserInfoSaved(r)

SpecProfile == Init /\ [][NextProfile]_vars

\* the administrator's routes and the login route
NextAdmin ==
  \/ Tick
  \/ \E r \in Slots :
       \/ Arrive(r, Admin \cup {"GET /users", "POST /login"})
       \/ IsAuthenticated(r)
       \/ IsAuthenticatedGot(r)
       \/ AuthorizedRoles(r)
       \/ Index(r)
       \/ LoginUser(r)
       \/ LoginUserFound(r)
       \/ UpdateUserRole(r)
       \/ DeleteUser(r)
       \/ DeleteUserFound(r)
       \/ DeleteUserDeleted(r)

SpecAdmin == Init /\ [][NextAdmin]_vars

\* the routes of Spec with a session store whose connection may be gone when
\* the gate looks a session up
NextOutage ==
  \/ Next
  \/ \E r \in Slots : IsAuthenticatedFailed(r)

SpecOutage == Init /\ [][NextOutage]_vars

\* the routes that issue credentials, in either environment
InitCookies == \E env \in Envs : Boot(env)

NextCookies ==
  \/ Tick
  \/ \E r \in Slots :
       \/ Arrive(r, {"POST /login", "GET /refresh-token"})
       \/ LoginUser(r)
       \/ LoginUserFound(r)
       \/ UpdateAccessToken(r)
       \/ UpdateAccessTokenGot(r)

SpecCookies == InitCookies /\ [][NextCookies]_vars

\* the login route and the logout route
NextSession ==
  \/ Tick
  \/ \E r \in Slots :
       \/ Arrive(r, {"POST /login", "GET /logout"})
       \/ IsAuthenticated(r)
       \/ IsAuthenticatedGot(r)
       \/ LoginUser(r)
       \/ LoginUserFound(r)
       \/ LogoutUser(r)

SpecSession == Init /\ [][NextSession]_vars

\* the administrator's routes with a primary store whose calls may fail, for
\* the identities that have logged in
NextFaults ==
  \/ Tick
  \/ \E r \in Slots :
       \/ Arrive(r, {"GET /users", "DELETE /users/:id"})
       \/ IsAuthenticated(r)
       \/ IsAuthenticatedGot(r)
       \/ AuthorizedRoles(r)
       \/ Index(r)
       \/ IndexFailed(r)
       \/ DeleteUser(r)
       \/ DeleteUserFound(r)
       \/ DeleteUserDeleted(r)

SpecFaults == Init /\ [][NextFaults]_vars

\* the routes that send a mail, with a mail sender that may fail
NextMail ==
  \/ Tick
  \/ \E r \in Slots :
       \/ Arrive(r, {"POST /register", "POST /orders"})
       \/ IsAuthenticated(r)
       \/ IsAuthenticatedGot(r)
       \/ RegisterUser(r)
       \/ RegisterUserChecked(r)
       \/ RegisterUserMailed(r)
       \/ RegisterUserMailFailed(r)
       \/ OrderCreate(r)
       \/ OrderCreateUser(r)
       \/ OrderCreateCourse(r)
       \/ OrderCreateMailed(r)
       \/ OrderCreateMailFailed(r)
       \/ OrderCreateSaved(r)
       \/ OrderCreatePurchased(r)

SpecMail == Init /\ [][NextMail]_vars

\* the course routes: the administrator's changes and the public reads
CourseCore == {"POST /courses", "PUT /courses/:id", "DELETE /courses/:id",
               "GET /courses/:id", "GET /courses"}
NextCourses ==
  \/ Tick
  \/ \E r \in Slots :
       \/ Arrive(r, CourseCore)
       \/ IsAuthenticated(r)
       \/ IsAuthenticatedGot(r)
       \/ AuthorizedRoles(r)
       \/ CourseCreate(r)
       \/ CourseCreated(r)
       \/ CourseUpdate(r)
       \/ CourseUpdated(r)
       \/ CourseDestroy(r)
       \/ CourseDestroyFound(r)
       \/ CourseDestroyDeleted(r)
       \/ Show(r)
       \/ ShowGot(r)
       \/ ShowFound(r)
       \/ CourseIndex(r)
       \/ CourseIndexGot(r)
       \/ CourseIndexFound(r)

SpecCourses == Init /\ [][NextCourses]_vars

\* the one key-value store under the session routes and the public course read
NextAlias ==
  \/ Tick
  \/ \E r \in Slots :
       \/ Arrive(r, {"GET /logout", "GET /me", "GET /courses/:id"})
       \/ IsAuthenticated(r)
       \/ IsAuthenticatedGot(r)
       \/ LogoutUser(r)
       \/ GetUserInfo(r)
       \/ GetUserByIdGot(r)
       \/ Show(r)
       \/ ShowGot(r)
       \/ ShowFound(r)

SpecAlias == Init /\ [][NextAlias]_vars

\* GET /me and GET /logout.  The event loop runs every handler whose event
\* has come and the stores answer every command, so each step of a request
\* that can be taken is taken in the end; nothing obliges a client to send a
\* request or the clock to be read.
ServesMe(r) ==
  \/ IsAuthenticated(r)
  \/ IsAuthenticatedGot(r)
  \/ LogoutUser(r)
  \/ GetUserInfo(r)
  \/ GetUserByIdGot(r)

NextMe ==
  \/ Tick
  \/ \E r \in Slots : Arrive(r, {"GET /me", "GET /logout"}) \/ ServesMe(r)

FairSpecMe ==
  /\ Init
  /\ [][NextMe]_vars
  /\ \A r \in Slots : WF_vars(ServesMe(r))

\* the order route, the route to the content of a purchased course and the
\* login route
NextOrders ==
  \/ Tick
  \/ \E r \in Slots :
       \/ Arrive(r, {"POST /orders", "GET /courses/:id/content", "POST /login"})
       \/ IsAuthenticated(r)
       \/ IsAuthenticatedGot(r)
       \/ LoginUser(r)
       \/ LoginUserFound(r)
       \/ OrderCreate(r)
       \/ OrderCreateUser(r)
       \/ OrderCreateCourse(r)
       \/ OrderCreateMailed(r)
       \/ OrderCreateMailFailed(r)
       \/ OrderCreateSaved(r)
       \/ OrderCreatePurchased(r)
       \/ GetCourseBoughtByUser(r)
       \/ GetCourseBoughtByUserFound(r)

SpecOrders == Init /\ [][NextOrders]_vars

\* authorizedRoles(...roles) on its own: every list of up to MaxRoles roles
\* ('' included), in front of a request with no identity (req.user undefined),
\* with the identity null, or with an identity of either role
MaxRoles == 2
RoleNames == {"admin", "user", ""}
RoleLists == UNION {[1..n -> RoleNames] : n \in 0..MaxRoles}
Identities ==
  {Undef, Null}
    \cup {JSONparse(JSONstringify(
            [_id |-> i, role |-> ro, name |-> "n0", email |-> Email(i)])) :
          i \in UserIds, ro \in {"admin", "user"}}

InitRoles ==
  /\ users = [i \in UserIds |->
                [_id |-> i, role |-> IF i = 1 THEN "admin" ELSE "user",
                 name |-> "n0", email |-> Email(i), password |-> Password,
                 courses |-> {}]]
  /\ courses = [c \in CourseIds |->
                  IF c = NumUsers + 1 THEN [_id |-> c, name |-> "k0", purchased |-> 0]
                  ELSE Null]
  /\ redis = [k \in Keys |-> Null]
  /\ minted = {}
  /\ now = 0
  /\ hist = NoHist
  /\ rq = <<>>
  /\ arrivals = 1
  /\ az \in RoleLists
  /\ NODE_ENV = "development"
  /\ accessTokenOptions = AccessTokenOptions
  /\ \E user \in Identities :
       req = [r \in Slots |->
                IF r = 1
                  THEN [NoReq EXCEPT !.route = Standalone, !.idx = 1,
                                     !.pc = "dispatch", !.user = user]
                  ELSE NoReq]

NextRoles == AuthorizedRoles(1) \/ Handler(1)

SpecRoles == InitRoles /\ [][NextRoles]_vars

\* ------------------------------------------------------------ properties
\* what a request is, seen from outside: its route and its cookies
Gated(r) ==
  /\ req[r].route \notin {"", Standalone}
  /\ Chain(req[r].route)[1] = Gate
Has(r, what) == \E i \in 1..Len(req[r].steps) : req[r].steps[i] = what
\* the access token of r was signed with the access secret and had not
\* expired when r arrived (the gate verifies it in the arrival's own segment)
Verifies(r) ==
  /\ req[r].access_token # Null
  /\ req[r].access_token.secret = "ACCESS_TOKEN"
  /\ req[r].t0 < req[r].access_token.exp
Expired(r) ==
  /\ req[r].access_token # Null
  /\ req[r].access_token.secret = "ACCESS_TOKEN"
  /\ req[r].t0 >= req[r].access_token.exp
RefreshVerifies(r) ==
  /\ req[r].refresh_token # Null
  /\ req[r].refresh_token.secret = "REFRESH_TOKEN"
  /\ req[r].t0 < req[r].refresh_token.exp
NoCookies(res) == res.access_token = Null /\ res.refresh_token = Null

\* C1: a request whose access token verifies but whose identity has no
\* session entry when the gate looks it up is answered 401; no identity is
\* attached to it and nothing behind the gate runs
C1_RejectsWithoutSession ==
  \A r \in Slots :
    (Gated(r) /\ Verifies(r) /\ req[r].at # Null /\ req[r].at.absent) =>
      /\ req[r].user = Undef
      /\ ~Has(r, "attach") /\ ~Has(r, "authorize") /\ ~Has(r, "handler")
      /\ req[r].pc \in {"isAuthenticated:get", "done"}
      /\ req[r].pc = "done" => req[r].res.status = 401

C1_Witness ==
  \E r \in Slots :
    /\ Gated(r) /\ Verifies(r) /\ req[r].at # Null /\ req[r].at.absent
    /\ req[r].pc = "done" /\ req[r].res.status = 401

\* C2 (as the specification states it): a gate check that finds the identity
\* of its unexpired access token revoked (its session entry was deleted and
\* it has not logged in since) never passes the gate
C2_RevokedStaysOut ==
  \A r \in Slots :
    (Gated(r) /\ Verifies(r) /\ req[r].at # Null /\ req[r].at.revoked) =>
      ~Has(r, "attach")

\* C3: a gate check that presents the access token sendToken has just minted
\* (no store write and no clock tick in between) passes, and the identity it
\* attaches is the snapshot sendToken stored
C3_MintThenGate ==
  \A r \in Slots :
    (Gated(r) /\ req[r].at # Null /\ req[r].at.fresh # Null) =>
      \/ req[r].pc = "isAuthenticated:get" /\ ~Has(r, "attach")
      \/ /\ Has(r, "attach")
         /\ req[r].user = JSONparse(req[r].at.fresh)
         /\ req[r].user = JSONparse(JSONstringify(users[FromHex(req[r].access_token.id)]))
         /\ req[r].res.status # 401

C3_Witness ==
  \E r \in Slots :
    /\ Gated(r) /\ req[r].at # Null /\ req[r].at.fresh # Null
    /\ Has(r, "attach") /\ Has(r, "handler")
    /\ req[r].user._id = req[r].access_token.id

\* C4: a request whose access token has expired is answered 401 by the gate,
\* with no session lookup, no identity and no handler, whether or not its
\* identity has a session entry
C4_ExpiredRejected ==
  \A r \in Slots :
    (Gated(r) /\ Expired(r)) =>
      /\ req[r].pc \in {"dispatch", "done"}
      /\ req[r].user = Undef
      /\ ~Has(r, "lookup") /\ ~Has(r, "attach") /\ ~Has(r, "handler")
      /\ req[r].pc = "done" => req[r].res.status = 401

C4_Witness ==
  \E r \in Slots :
    /\ Gated(r) /\ Expired(r) /\ req[r].pc = "done"
    /\ req[r].res.status = 401
    /\ ~req[r].at.absent

\* C5: a request to a gated route without an access_token cookie is answered
\* 401 before the token is verified or the session looked up; no handler runs
C5_NoCookieRejected ==
  \A r \in Slots :
    (Gated(r) /\ req[r].access_token = Null) =>
      /\ req[r].pc \in {"dispatch", "done"}
      /\ req[r].user = Undef
      /\ req[r].pc = "done" => (req[r].res.status = 401 /\ req[r].steps = <<>>)
      /\ req[r].pc = "dispatch" => req[r].idx = 1

C5_Witness ==
  \E r \in Slots :
    /\ Gated(r) /\ req[r].access_token = Null
    /\ req[r].pc = "done" /\ req[r].res.status = 401

\* the answer to a request whose access token has a bad signature
Malformed == ErrorMiddleware(JwtVerify(Forged, "ACCESS_TOKEN").err)

\* C6 (as the specification states it): the answer to an expired access token
\* has the status and the message of the answer to a malformed one
C6_SameRejection ==
  \A r \in Slots :
    (Gated(r) /\ Expired(r) /\ req[r].pc = "done") =>
      /\ req[r].res.status = Malformed.status
      /\ req[r].res.message = Malformed.message

\* the places of the middlewares named what in a chain
Places(chain, what) == {i \in 1..Len(chain) : chain[i].mw = what}
\* the trace of a request is a prefix of: verify, lookup, attach, authorize,
\* handler (each at most once, in that order)
Order == <<"verify", "lookup", "attach", "authorize", "handler">>
Rank(what) == CHOOSE i \in 1..Len(Order) : Order[i] = what
Ordered(steps) ==
  \A i, j \in 1..Len(steps) : i < j => Rank(steps[i]) < Rank(steps[j])

\* C7: in every registered chain the gate stands before every authorization
\* check and before every handler that reads req.user, and every
\* authorization check stands before the handler; the steps of a request
\* through a gated chain happen in the order verify, lookup, attach,
\* authorize, handler, none without the ones before it; the handler of an
\* admin-only route runs only for an attached identity whose role is admin
C7_GateFirst ==
  /\ \A rt \in RouteTable :
       LET gates == Places(rt.chain, "isAuthenticated")
           checks == Places(rt.chain, "authorizedRoles")
       IN /\ (checks # {} \/ rt.chain[Len(rt.chain)].mw \in ReadsUser) => gates = {1}
          /\ \A i \in checks : 1 < i /\ i < Len(rt.chain)
  /\ \A r \in Slots :
       Gated(r) =>
         /\ Ordered(req[r].steps)
         /\ Has(r, "lookup") => Has(r, "verify")
         /\ Has(r, "attach") => Has(r, "lookup")
         /\ Has(r, "authorize") => Has(r, "attach")
         /\ Has(r, "handler") =>
              /\ Has(r, "attach")
              /\ req[r].user \notin {Undef, Null}
              /\ Places(Chain(req[r].route), "authorizedRoles") # {} =>
                   (Has(r, "authorize") /\ req[r].user.role = "admin")

C7_Witness ==
  \E r \in Slots :
    /\ req[r].route = "GET /users"
    /\ req[r].steps = Order
    /\ req[r].res.status = 200

\* the role of the identity attached to r; '' when none is attached
RoleOf(r) == IF req[r].user \in {Undef, Null} THEN "" ELSE req[r].user.role
Allowed(r) == \E i \in 1..Len(az) : az[i] = RoleOf(r)

\* C8: authorizedRoles(...az) passes the request on to the handler exactly
\* when the role of its identity is one of az, and answers 403 otherwise; a
\* request without identity counts as role '' and is answered 403 by every
\* list of actual roles
C8_RoleCheck ==
  LET q == req[1]
  IN (q.route = Standalone /\ Has(1, "authorize")) =>
       /\ Allowed(1) <=> (q.idx = 2 /\ q.res.status # 403)
       /\ ~Allowed(1) <=>
            (q.pc = "done" /\ q.res.status = 403 /\ ~Has(1, "handler")
               /\ q.res.success = "false")
       /\ (q.user \in {Undef, Null} /\ \A i \in 1..Len(az) : az[i] # "") =>
            q.res.status = 403
       /\ (az = <<"admin">> /\ RoleOf(1) = "user") => q.res.status = 403
       /\ (az = <<"admin">> /\ RoleOf(1) = "admin") => q.idx = 2

C8_Witness ==
  /\ req[1].route = Standalone
  /\ az = <<"admin", "user">>
  /\ req[1].user = Undef
  /\ req[1].pc = "done" /\ req[1].res.status = 403

\* the step that takes r from pc on
Continues(r, pc) == req[r].pc = pc /\ req'[r] # req[r]

\* C9: the continuation of updateAccessToken for an unexpired refresh token
\* whose identity had no session entry answers 401, sets no cookie, signs no
\* token and leaves the session store as it is
C9_RefreshWithoutSession ==
  [][\A r \in Slots :
       (Continues(r, "updateAccessToken:get") /\ RefreshVerifies(r) /\ req[r].at.absent) =>
         /\ req'[r].pc = "done"
         /\ req'[r].res.status = 401
         /\ NoCookies(req'[r].res)
         /\ req'[r].res.body = Null
         /\ minted' = minted
         /\ redis' = redis]_vars

C9_Witness ==
  \E r \in Slots :
    /\ req[r].route = "GET /refresh-token"
    /\ RefreshVerifies(r) /\ req[r].at # Null /\ req[r].at.absent
    /\ req[r].pc = "done" /\ req[r].res.status = 401

\* C10: updateAccessToken for a refresh token that is missing, has a bad
\* signature or has expired answers 400 in its first segment, sets no cookie,
\* signs no token and leaves the session store as it is
C10_RefreshInvalid ==
  [][\A r \in Slots :
       (Continues(r, "dispatch") /\ req[r].route = "GET /refresh-token"
          /\ ~RefreshVerifies(r)) =>
         /\ req'[r].pc = "done"
         /\ req'[r].res.status = 400
         /\ NoCookies(req'[r].res)
         /\ req'[r].res.body = Null
         /\ minted' = minted
         /\ redis' = redis]_vars

\* ... reached with an expired refresh token whose identity has a session
C10_Witness ==
  \E r \in Slots :
    /\ req[r].route = "GET /refresh-token"
    /\ req[r].refresh_token # Null
    /\ req[r].refresh_token.secret = "REFRESH_TOKEN"
    /\ req[r].t0 >= req[r].refresh_token.exp
    /\ redis[req[r].refresh_token.id] # Null
    /\ req[r].pc = "done" /\ req[r].res.status = 400

\* the life a session entry has left; an entry written without a TTL never
\* runs out (Forever is longer than any life within the clock's range)
Forever == MaxTime + SessionTTL + 1
Remaining(entry) == IF entry.exp = NoExp THEN Forever ELSE entry.exp - now
\* the continuation of updateAccessToken succeeds for r
Refreshes(r) == Continues(r, "updateAccessToken:get") /\ req'[r].res.status = 200

\* C11 (as the specification states it): a successful refresh signs a new
\* pair for the same identity id, writes the snapshot it read back under that
\* id with a TTL of 3 days, and leaves the entry no less life than it had
C11_RefreshExtends ==
  [][\A r \in Slots :
       Refreshes(r) =>
         LET id == req[r].refresh_token.id
         IN /\ req'[r].res.access_token.id = id
            /\ req'[r].res.refresh_token.id = id
            /\ redis'[id] # Null
            /\ redis'[id].val = req[r].loc.session
            /\ redis'[id].exp = now + SessionTTL
            /\ redis[id] # Null => Remaining(redis'[id]) >= Remaining(redis[id])]_vars

\* r is a request to the refresh route that has been answered with success
Refreshed(r) ==
  /\ req[r].route = "GET /refresh-token"
  /\ req[r].pc = "done" /\ req[r].res.status = 200

\* C12: a successful refresh sets the new access token and the new refresh
\* token as cookies; its body carries the new refresh token and no access token
C12_RefreshResponse ==
  \A r \in Slots :
    Refreshed(r) =>
      LET res == req[r].res
      IN /\ res.access_token \notin {Null, Cleared}
         /\ res.refresh_token \notin {Null, Cleared}
         /\ res.access_token.secret = "ACCESS_TOKEN"
         /\ res.refresh_token.secret = "REFRESH_TOKEN"
         /\ res.access_token.exp > req[r].t0
         /\ res.refresh_token.exp > req[r].t0
         /\ DOMAIN res.body = {"status", "refreshToken"}
         /\ res.body.refreshToken = res.refresh_token
         /\ res.body.refreshToken # res.access_token

C12_Witness ==
  \E r \in Slots : Refreshed(r) /\ req[r].res.body.refreshToken = req[r].res.refresh_token

\* C13: a refresh with an unexpired refresh token whose identity has a session
\* entry succeeds with a new pair for that identity, whether or not the token
\* was redeemed before: redeeming a refresh token does not invalidate it
C13_NoRotation ==
  \A r \in Slots :
    (/\ req[r].route = "GET /refresh-token"
     /\ RefreshVerifies(r)
     /\ req[r].at # Null /\ ~req[r].at.absent
     /\ req[r].pc = "done") =>
      /\ req[r].res.status = 200
      /\ req[r].res.access_token.id = req[r].refresh_token.id
      /\ req[r].res.refresh_token.id = req[r].refresh_token.id
      /\ req[r].refresh_token \in hist.redeemed

\* ... reached by a token that was already redeemed when it was presented
C13_Witness ==
  \E r \in Slots :
    /\ Refreshed(r)
    /\ req[r].at.redeemed
    /\ req[r].refresh_token \in hist.redeemed

\* C14 (as the specification states it): every step that writes a session
\* entry gives it the TTL of the refresh token's lifetime, so that no entry
\* of the store is without expiry
C14_EveryEntryExpires ==
  [][\A k \in Keys :
       (redis'[k] # Null /\ redis'[k] # redis[k]) =>
         /\ redis'[k].exp # NoExp
         /\ redis'[k].exp = now + SessionTTL
         /\ SessionTTL = RefreshLife]_vars

\* C15: a request whose session lookup failed is answered with an error; no
\* identity is attached to it and nothing behind the gate runs
C15_FailClosed ==
  \A r \in Slots :
    (Gated(r) /\ req[r].at # Null /\ req[r].at.failed) =>
      /\ req[r].pc = "done"
      /\ req[r].res.status = 500
      /\ req[r].res.success = "false"
      /\ req[r].user = Undef
      /\ ~Has(r, "attach") /\ ~Has(r, "authorize") /\ ~Has(r, "handler")

\* ... reached for a token that verifies and an identity that has a session
C15_Witness ==
  \E r \in Slots :
    /\ Gated(r) /\ Verifies(r)
    /\ req[r].at # Null /\ req[r].at.failed /\ ~req[r].at.absent
    /\ req[r].pc = "done" /\ req[r].res.status = 500

\* the record of id as a query loads it from the primary store docs, serialized
Saved(docs, id) == JSONstringify(Unselect(docs[FromHex(id)]))

\* C16 (as the specification states it): when an updateUserInfo request of an
\* identity is answered with success, the session entry under the identity's
\* id is the serialized record the primary store holds for it
C16_CacheFollowsStore ==
  [][\A r \in Slots :
       (Continues(r, "updateUserInfo:save") /\ req'[r].res.status = 200) =>
         LET id == req[r].loc.userId
         IN /\ redis'[id] # Null
            /\ redis'[id].val = Saved(users', id)]_vars

\* C17 (as the specification states it): when updateUserRole has set the role
\* of an identity in the primary store, the session entry of that identity,
\* if it has one, carries the new role
C17_RoleReachesSession ==
  [][\A r \in Slots :
       (/\ Continues(r, "dispatch")
        /\ req[r].route = "PUT /update-user-role"
        /\ req'[r].res.status = 201) =>
         LET id == req[r].body.id
         IN (users'[FromHex(id)] # Null /\ redis'[id] # Null) =>
              /\ users'[FromHex(id)].role = req[r].body.role
              /\ JSONparse(redis'[id].val).role = req[r].body.role]_vars

\* a deleteUser request for id is still on its way
Deleting(id) ==
  \E r \in Slots :
    /\ req[r].route = "DELETE /users/:id"
    /\ req[r].body.id = id
    /\ req[r].pc # "done"

\* C19 (as the specification states it): once deleteUser has completed for an
\* identity, there is neither a primary record nor a session entry for its id
\* (the model never creates a record again, so a missing record whose
\* deletion is not on its way any more is a completed deletion)
C19_DeletedStaysGone ==
  \A i \in UserIds :
    (users[i] = Null /\ ~Deleting(Hex(i))) => redis[Hex(i)] = Null

\* the step is the login or the refresh of identity id succeeding
Creates(r, id) ==
  \/ /\ Continues(r, "loginUser:findOne")
     /\ req'[r].res.status = 200
     /\ req'[r].res.access_token.id = id
  \/ Refreshes(r) /\ req[r].refresh_token.id = id
\* the step is the logout handler of identity id, or the end of its deletion
Removes(r, id) ==
  \/ /\ Continues(r, "dispatch")
     /\ req[r].route = "GET /logout"
     /\ req'[r].res.status = 200
     /\ IdOf(req[r].user) = id
  \/ Continues(r, "deleteUser:deleteOne") /\ req[r].body.id = id

\* C18 (as the specification states it): the session entry of an identity
\* comes into existence only in a step of its login or refresh, and goes
\* away only in a step of its logout or deletion (or when its TTL runs out)
C18_EntryLifecycle ==
  [][\A id \in HexIds :
       /\ (redis[id] = Null /\ redis'[id] # Null) => \E r \in Slots : Creates(r, id)
       /\ (redis[id] # Null /\ redis'[id] = Null) =>
            (now' # now \/ \E r \in Slots : Removes(r, id))]_vars

\* r has been answered with credentials
Issued(r) ==
  /\ req[r].pc = "done"
  /\ req[r].res.access_token \notin {Null, Cleared}
  /\ req[r].res.refresh_token \notin {Null, Cleared}
Flags(options) == options # Null /\ options.httpOnly /\ options.sameSite = "lax"

\* C20 (as the specification states it): the two cookies of a response that
\* issues credentials are httpOnly and sameSite=lax, and secure in production
C20_CookieFlags ==
  \A r \in Slots :
    Issued(r) =>
      /\ Flags(req[r].res.access_options)
      /\ Flags(req[r].res.refresh_options)
      /\ NODE_ENV = "production" =>
           (req[r].res.access_options.secure /\ req[r].res.refresh_options.secure)

\* the step is the login of r succeeding / the logout handler of r
LoggingIn(r) == Continues(r, "loginUser:findOne") /\ req'[r].res.status = 200
LoggingOut(r) ==
  /\ Continues(r, "dispatch")
  /\ req[r].route = "GET /logout"
  /\ req[r].idx = 2

\* C21: with logins and logouts in flight in any order, a step of a login
\* leaves under its identity's id the snapshot that login serialized, a step
\* of a logout leaves no entry under its identity's id, neither touches the
\* entry of another identity, and no other step changes the session store: so
\* the entry of an identity is always what the last of these writes left
C21_LastWriteWins ==
  [][/\ \A r \in Slots :
          LoggingIn(r) =>
            LET id == Hex(req[r].loc.user._id)
            IN /\ redis'[id] = [val |-> JSONstringify(req[r].loc.user), exp |-> NoExp]
               /\ \A k \in Keys \ {id} : redis'[k] = redis[k]
     /\ \A r \in Slots :
          LoggingOut(r) =>
            LET id == req[r].user._id
            IN /\ id = req[r].access_token.id
               /\ redis'[id] = Null
               /\ \A k \in Keys \ {id} : redis'[k] = redis[k]
     /\ redis' # redis => \E r \in Slots : LoggingIn(r) \/ LoggingOut(r)]_vars

\* ... reached with a logout of an identity landing while a login of the same
\* identity, which will succeed, is in flight
C21_Witness ==
  \E r, r2 \in Slots :
    /\ req[r].pc = "loginUser:findOne"
    /\ req[r].loc.user # Null
    /\ req[r].loc.user.password = req[r].body.password
    /\ req[r2].route = "GET /logout"
    /\ req[r2].pc = "done" /\ req[r2].res.status = 200
    /\ req[r2].user._id = Hex(req[r].loc.user._id)
    /\ redis[req[r2].user._id] = Null

\* r has been answered, and it failed: the status is an error status or a
\* store call of the request threw
Failed(r) ==
  /\ req[r].pc = "done"
  /\ (req[r].res.status >= 400 \/ req[r].raised # "")

\* C22 (as the specification states it): a failed request is answered with
\* an error status and a body that is exactly {success: false, message}
C22_ErrorShape ==
  \A r \in Slots :
    Failed(r) =>
      /\ req[r].res.status >= 400
      /\ req[r].res.success = "false"
      /\ req[r].res.message # ""
      /\ req[r].res.body = Null

\* C23 (as the specification states it): a request during which the primary
\* store threw a malformed-id error is answered 404, and one during which it
\* threw a duplicate-key error is answered 409
C23_StoreErrorsMapped ==
  \A r \in Slots :
    req[r].pc = "done" =>
      /\ req[r].raised = CastError.name => req[r].res.status = 404
      /\ req[r].raised = DuplicateKey.name => req[r].res.status = 409

\* the step is the catch of a failed sendMail in r
MailFails(r) ==
  /\ (Continues(r, "registerUser:sendMail") \/ Continues(r, "order.create:sendMail"))
  /\ req'[r].raised = MailError.name

\* C24 (as the specification states it): when the mail sender fails during a
\* request, the request is answered 500 and the stores are left as they are
C24_MailFailure ==
  [][\A r \in Slots :
       MailFails(r) =>
         /\ req'[r].pc = "done"
         /\ req'[r].res.status = 500
         /\ users' = users /\ courses' = courses /\ redis' = redis]_vars

\* r is a read of the courses that has been answered, that started when no
\* request that changes a course was on its way, and since whose start the
\* Course collection has not changed
ReadAfterMutations(r, path) ==
  /\ req[r].route = path
  /\ req[r].pc = "done" /\ req[r].res.status = 200
  /\ req[r].at.quiet
  /\ req[r].at.seen = courses

\* C25 (as the specification states it): such a read returns what the primary
\* store holds: show the course of that id, index the courses there are
C25_ReadsFollowStore ==
  \A r \in Slots :
    /\ (ReadAfterMutations(r, "GET /courses/:id") /\ req[r].body.id \in CourseHexIds) =>
         req[r].res.body.course = JSONparse(JSONstringify(CourseFindById(req[r].body.id)))
    /\ ReadAfterMutations(r, "GET /courses") =>
         req[r].res.body.courses = JSONparse(JSONstringifyAll(CourseFind))

\* C26 (as the specification states it): the identity the gate has attached
\* to a request is an identity record, and its _id is the id of the request's
\* access token
C26_IdentityAttached ==
  \A r \in Slots :
    (Gated(r) /\ Has(r, "attach")) =>
      /\ req[r].user \notin {Null, Undef}
      /\ req[r].user._id = req[r].access_token.id

\* the step is show answering r
ShowAnswers(r) ==
  /\ req[r].route = "GET /courses/:id"
  /\ req[r].pc # "done" /\ req'[r].pc = "done" /\ req'[r].res.status = 200

\* C27 (as the specification states it): what show answers is not the session
\* snapshot of an identity that has a session entry
C27_NoSessionDisclosed ==
  [][\A r \in Slots :
       ShowAnswers(r) =>
         \A id \in HexIds :
           (redis[id] # Null /\ JSONparse(redis[id].val) # Null) =>
             req'[r].res.body.course # JSONparse(redis[id].val)]_vars

\* C28 (as the specification states it): a GET /me request that has passed
\* the gate is answered in the end
C28_MeAnswered ==
  \A r \in Slots :
    (req[r].route = "GET /me" /\ Has(r, "attach")) ~> (req[r].pc = "done")

\* C29 (as the specification states it): a request for the content of a
\* course that arrives with an unexpired access token and a session, after a
\* create-order request of the same identity for that course was answered
\* with success, is granted
C29_PurchaseGrantsContent ==
  \A r \in Slots :
    (/\ req[r].route = "GET /courses/:id/content"
     /\ req[r].pc = "done"
     /\ Verifies(r)
     /\ req[r].at # Null /\ ~req[r].at.absent
     /\ req[r].body.id \in req[r].at.ordered) =>
      /\ req[r].res.status # 403
      /\ req[r].res.status = 200

\* C30 (as the specification states it): the purchased counter of a course is
\* its initial value plus the number of create-order requests that saved
\* their purchase of it
C30_PurchasedCounts ==
  \A c \in CourseIds :
    courses[c] # Null => courses[c].purchased = 0 + hist.purchases[c]

====
